---- MODULE Spec2Model ----
(***************************************************************************)
(* A model of pypb's blocked dataset store (pypb/dset.py): the byte layout *)
(* of a dataset file, the DatasetWriter / DatasetAppender / DatasetReader  *)
(* objects and the run-once close of pypb/abs.py.                          *)
(*                                                                         *)
(* A byte is a number in 0..255 and a byte string is a sequence of bytes.  *)
(* The file is kept sparsely: the 4096-byte header reservation is the      *)
(* prefix actually written (head) followed by placeholder bytes, and the   *)
(* body is every byte from offset HEADER_SPACE on.  Writes reach the file  *)
(* in program order.                                                       *)
(***************************************************************************)
EXTENDS Integers, Sequences, FiniteSets, TLC

(***************************************************************************)
(* Bounds of the model.                                                    *)
(***************************************************************************)
\* records one run hands to append/extend, abandoned sessions included
MaxLen == 3
\* largest block_length a Writer is opened with
MaxBlockLength == 2
\* Appender sessions per file
MaxSessions == 2

\* the longest index list handed to get_idxs
MaxIdxs == 2

(***************************************************************************)
(* Program constants.                                                      *)
(***************************************************************************)
MAGIC_STRING == <<112, 98, 39, 115, 32, 100, 97, 116, 97, 115, 101, 116>>
HEADER_SPACE == 4096
PRE_HEADER_LEN == 18
CHECKSUM_LEN == 8
VERSION == 3
\* chr(42), the placeholder the Writer fills the header reservation with
GARBAGE == 42
\* the modulus of adler32
ADLER_MOD == 65521

\* the names used in the header, as byte strings
K_index_start == <<105, 110, 100, 101, 120, 95, 115, 116, 97, 114, 116>>
K_index_size == <<105, 110, 100, 101, 120, 95, 115, 105, 122, 101>>
K_index_raw == <<105, 110, 100, 101, 120, 95, 114, 97, 119>>
K_serializer == <<115, 101, 114, 105, 97, 108, 105, 122, 101, 114>>
K_compression == <<99, 111, 109, 112, 114, 101, 115, 115, 105, 111, 110>>
K_block_length == <<98, 108, 111, 99, 107, 95, 108, 101, 110, 103, 116, 104>>
K_length == <<108, 101, 110, 103, 116, 104>>
S_msgpack == <<109, 115, 103, 112, 97, 99, 107>>
S_lz4 == <<108, 122, 52>>
S_zlib == <<122, 108, 105, 98>>

SERIALIZER_TABLE == {S_msgpack}
COMPRESSER_TABLE == {S_zlib, S_lz4}
DECOMPRESSER_TABLE == {S_zlib, S_lz4}

(***************************************************************************)
(* struct.pack / struct.unpack of unsigned little-endian integers.         *)
(***************************************************************************)
RECURSIVE LE(_, _)
LE(n, k) == IF k = 0 THEN <<>> ELSE <<n % 256>> \o LE(n \div 256, k - 1)

RECURSIVE BE(_, _)
BE(n, k) == IF k = 0 THEN <<>> ELSE BE(n \div 256, k - 1) \o <<n % 256>>

RECURSIVE UnLE(_)
UnLE(b) == IF b = <<>> THEN 0 ELSE b[1] + 256 * UnLE(Tail(b))

RECURSIVE UnBE(_)
UnBE(b) == IF b = <<>> THEN 0 ELSE b[Len(b)] + 256 * UnBE(SubSeq(b, 1, Len(b) - 1))

\* b[from .. from+n-1], cut at the end of b (a short read)
Slice(b, from, n) ==
    SubSeq(b, from, IF from + n - 1 > Len(b) THEN Len(b) ELSE from + n - 1)

\* Body of the value v: LET x == v IN Body(x), with v written once
With(v, Body(_)) == Body(v)

(***************************************************************************)
(* zlib.adler32, as its two 16-bit halves <<a, b>>; the 32-bit value is    *)
(* b * 65536 + a.  With a_0 = 1, a_i = a_(i-1) + d[i] and b the sum of     *)
(* a_1 .. a_n, both modulo 65521:  a = 1 + sum of d[i]  and                *)
(* b = n + sum of (n - i + 1) * d[i].  The sums are taken by halving, so   *)
(* that a long byte string needs no deep recursion.                        *)
(***************************************************************************)
RECURSIVE WeightedSum(_, _, _, _)
WeightedSum(d, lo, hi, w) ==
    IF lo > hi THEN 0
    ELSE IF lo = hi THEN (IF w THEN (Len(d) - lo + 1) * d[lo] ELSE d[lo])
    ELSE LET mid == (lo + hi) \div 2
         IN  WeightedSum(d, lo, mid, w) + WeightedSum(d, mid + 1, hi, w)

adler32(d) ==
    <<(1 + WeightedSum(d, 1, Len(d), FALSE)) % ADLER_MOD,
      (Len(d) + WeightedSum(d, 1, Len(d), TRUE)) % ADLER_MOD>>

\* checksum(data): struct_pack("< I I", len(data), adler32(data))
\* a faulty variant: the size alone, no hash
checksum_nohash(data) == LE(Len(data), 4) \o LE(0, 4)

checksum(data) ==
    LET h == adler32(data)
    IN  LE(Len(data), 4) \o LE(h[1], 2) \o LE(h[2], 2)

(***************************************************************************)
(* msgpack values.  Every value has the same shape, so that any two can be *)
(* compared: t is the type, n the number of an "int", s the bytes of a     *)
(* "bin" (a Python 2 str), items the members of an "arr" (list or tuple)   *)
(* and the alternating keys and values of a "map" (dict).                  *)
(***************************************************************************)
IntV(n) == [t |-> "int", n |-> n, s |-> <<>>, items |-> <<>>]
BinV(s) == [t |-> "bin", n |-> 0, s |-> s, items |-> <<>>]
ArrV(items) == [t |-> "arr", n |-> 0, s |-> <<>>, items |-> items]
MapV(items) == [t |-> "map", n |-> 0, s |-> <<>>, items |-> items]
\* what the model makes of a byte it does not decode
NoneV == [t |-> "none", n |-> 0, s |-> <<>>, items |-> <<>>]

\* The caller hands over the records of one stream of distinct values, as
\* the tests do with range(n): Rec(k) is the k-th record handed to
\* append/extend.  Odd ones pack to one byte, even ones to two.
Rec(k) == IF k % 2 = 1 THEN IntV(k) ELSE IntV(200 + k)

\* the n records of the stream after the first k
RecsFrom(k, n) == [i \in 1..n |-> Rec(k + i)]

\* dict lookup: the value of the first pair whose key is the str k
RECURSIVE MapFind(_, _, _)
MapFind(items, k, i) ==
    IF i + 1 > Len(items) THEN [ok |-> FALSE, v |-> NoneV]
    ELSE IF items[i].t = "bin" /\ items[i].s = k THEN [ok |-> TRUE, v |-> items[i + 1]]
    ELSE MapFind(items, k, i + 2)

MapGet(m, k) == MapFind(m.items, k, 1)

(***************************************************************************)
(* msgpack.packb(x, use_bin_type=True)                                     *)
(***************************************************************************)
PackInt(n) ==
    IF n < 128 THEN <<n>>
    ELSE IF n < 256 THEN <<204, n>>
    ELSE IF n < 65536 THEN <<205>> \o BE(n, 2)
    ELSE <<206>> \o BE(n, 4)

RECURSIVE msgpack_packb(_)
RECURSIVE PackItems(_, _)
PackItems(items, i) ==
    IF i > Len(items) THEN <<>>
    ELSE msgpack_packb(items[i]) \o PackItems(items, i + 1)

msgpack_packb(x) ==
    CASE x.t = "int" -> PackInt(x.n)
      [] x.t = "bin" -> <<196, Len(x.s)>> \o x.s
      [] x.t = "arr" -> <<144 + Len(x.items)>> \o PackItems(x.items, 1)
      [] x.t = "map" -> <<128 + (Len(x.items) \div 2)>> \o PackItems(x.items, 1)
      [] OTHER -> <<192>>

(***************************************************************************)
(* msgpack.unpackb(x, encoding="utf-8"): Unpack reads one value at         *)
(* position p and returns it with the position after it; ok is FALSE where *)
(* the library raises (truncated or undecodable input).                    *)
(***************************************************************************)
UnpackFail == [ok |-> FALSE, v |-> NoneV, p |-> 0]

RECURSIVE Unpack(_, _)
RECURSIVE UnpackItems(_, _, _, _)
UnpackItems(b, p, n, acc) ==
    IF n = 0 THEN [ok |-> TRUE, v |-> acc, p |-> p]
    ELSE LET r == Unpack(b, p)
         IN  IF ~r.ok THEN [ok |-> FALSE, v |-> <<>>, p |-> 0]
             ELSE UnpackItems(b, r.p, n - 1, Append(acc, r.v))

Unpack(b, p) ==
    IF p > Len(b) THEN UnpackFail
    ELSE LET c == b[p] IN
      CASE c < 128 -> [ok |-> TRUE, v |-> IntV(c), p |-> p + 1]
        [] c = 204 -> IF p + 1 > Len(b) THEN UnpackFail
                      ELSE [ok |-> TRUE, v |-> IntV(b[p + 1]), p |-> p + 2]
        [] c = 205 -> IF p + 2 > Len(b) THEN UnpackFail
                      ELSE [ok |-> TRUE, v |-> IntV(UnBE(SubSeq(b, p + 1, p + 2))), p |-> p + 3]
        [] c = 206 -> IF p + 4 > Len(b) \/ b[p + 1] > 127 THEN UnpackFail
                      ELSE [ok |-> TRUE, v |-> IntV(UnBE(SubSeq(b, p + 1, p + 4))), p |-> p + 5]
        [] c = 196 -> IF p + 1 > Len(b) \/ p + 1 + b[p + 1] > Len(b) THEN UnpackFail
                      ELSE [ok |-> TRUE, v |-> BinV(SubSeq(b, p + 2, p + 1 + b[p + 1])),
                            p |-> p + 2 + b[p + 1]]
        [] c >= 144 /\ c < 160 ->
              LET r == UnpackItems(b, p + 1, c - 144, <<>>)
              IN  IF r.ok THEN [ok |-> TRUE, v |-> ArrV(r.v), p |-> r.p] ELSE UnpackFail
        [] c >= 128 /\ c < 144 ->
              LET r == UnpackItems(b, p + 1, 2 * (c - 128), <<>>)
              IN  IF r.ok THEN [ok |-> TRUE, v |-> MapV(r.v), p |-> r.p] ELSE UnpackFail
        [] OTHER -> UnpackFail

\* unpackb raises on trailing bytes (ExtraData)
msgpack_unpackb(b) ==
    LET r == Unpack(b, 1)
    IN  IF r.ok /\ r.p = Len(b) + 1 THEN [ok |-> TRUE, v |-> r.v]
        ELSE [ok |-> FALSE, v |-> NoneV]

(***************************************************************************)
(* The compressers.  zlib is modelled by the stored form of a zlib stream  *)
(* (header, one stored deflate block, adler32 of the plain bytes), lz4 by  *)
(* the literal-only form of python-lz4's output (4-byte plain size, one    *)
(* literal run).  Both change the bytes and their number, and the          *)
(* decompressers reject what the compressers cannot have produced.         *)
(***************************************************************************)
zlib_compress(x) ==
    LET h == adler32(x)
    IN  <<120, 1, 1>> \o LE(Len(x), 2) \o LE(65535 - Len(x), 2) \o x
          \o BE(h[2], 2) \o BE(h[1], 2)

zlib_decompress(c) ==
    IF Len(c) < 11 \/ SubSeq(c, 1, 3) # <<120, 1, 1>> THEN [ok |-> FALSE, v |-> <<>>]
    ELSE LET n == UnLE(SubSeq(c, 4, 5))
             x == SubSeq(c, 8, Len(c) - 4)
             h == adler32(x)
         IN  IF /\ UnLE(SubSeq(c, 6, 7)) = 65535 - n
                /\ Len(c) = n + 11
                /\ SubSeq(c, Len(c) - 3, Len(c)) = BE(h[2], 2) \o BE(h[1], 2)
             THEN [ok |-> TRUE, v |-> x]
             ELSE [ok |-> FALSE, v |-> <<>>]

lz4_compress(x) ==
    LE(Len(x), 4) \o
    (IF Len(x) < 15 THEN <<16 * Len(x)>> ELSE <<240, Len(x) - 15>>) \o x

lz4_decompress(c) ==
    IF Len(c) < 5 THEN [ok |-> FALSE, v |-> <<>>]
    ELSE LET n == UnLE(SubSeq(c, 1, 3))
             long == c[5] = 240
             x == SubSeq(c, IF long THEN 7 ELSE 6, Len(c))
         IN  IF /\ c[4] = 0
                /\ Len(x) = n
                /\ IF long THEN Len(c) >= 6 /\ c[6] = n - 15 ELSE c[5] = 16 * n /\ n < 15
             THEN [ok |-> TRUE, v |-> x]
             ELSE [ok |-> FALSE, v |-> <<>>]

\* COMPRESSER_TABLE[name](x) and DECOMPRESSER_TABLE[name](c)
compress(name, x) == IF name = S_zlib THEN zlib_compress(x) ELSE lz4_compress(x)

decompress(name, c) == IF name = S_zlib THEN zlib_decompress(c) ELSE lz4_decompress(c)

(***************************************************************************)
(* The file.  exists: the path names a file; hsize: how many bytes of the  *)
(* header reservation the file holds (0 for a zero-byte file); head: the   *)
(* bytes written at the start of the reservation, the rest of which reads  *)
(* as the placeholder; body: the bytes from offset HEADER_SPACE on.        *)
(***************************************************************************)
NoFile == [exists |-> FALSE, hsize |-> 0, head |-> <<>>, body |-> <<>>]

\* open(fname, "wb"): the path names a file of no bytes
EmptyFile == [exists |-> TRUE, hsize |-> 0, head |-> <<>>, body |-> <<>>]

\* open(fname, "wb") followed by fobj.write(chr(42) * HEADER_SPACE)
NewFile == [exists |-> TRUE, hsize |-> HEADER_SPACE, head |-> <<>>, body |-> <<>>]

FileSize(f) == f.hsize + Len(f.body)

\* the byte at offset o of the header reservation
HeadByte(f, o) == IF o < Len(f.head) THEN f.head[o + 1] ELSE GARBAGE

\* fobj.seek(pos); fobj.read(n): up to n bytes, fewer at the end of the file
Read(f, pos, n) ==
    IF pos >= HEADER_SPACE THEN Slice(f.body, pos - HEADER_SPACE + 1, n)
    ELSE LET hn == IF pos + n > f.hsize THEN f.hsize - pos ELSE n
             hh == IF hn < 0 THEN 0 ELSE hn
         IN  [i \in 1..hh |-> HeadByte(f, pos + i - 1)]
               \o (IF pos + n > HEADER_SPACE /\ f.hsize = HEADER_SPACE
                   THEN Slice(f.body, 1, pos + n - HEADER_SPACE) ELSE <<>>)

\* bytes b laid over the byte string s from offset off (0-based) on
Overlay(s, off, b) ==
    SubSeq(s, 1, off) \o b \o SubSeq(s, off + Len(b) + 1, Len(s))

\* fobj.seek(pos); fobj.write(b).  The header is written inside the
\* reservation (the assert of _write_header), everything else after it.
Write(f, pos, b) ==
    IF pos >= HEADER_SPACE
    THEN [f EXCEPT !.body = Overlay(f.body, pos - HEADER_SPACE, b)]
    ELSE [f EXCEPT !.head = Overlay(f.head, pos, b)]

(***************************************************************************)
(* Errors.  An operation's outcome carries err: "" when it returned, else  *)
(* the exception it raised.                                                *)
(***************************************************************************)
E_none == ""
E_nofile == "IOError: No such file"
E_struct == "struct.error"
E_magic == "IOError: Not a dataset file"
E_version == "IOError: Invalid version"
E_header == "IOError: Header checksum mismatch"
E_index == "IOError: Index checksum mismatch"
E_block == "IOError: Block checksum mismatch"
E_compression == "IOError: Unknown compression"
E_serializer == "IOError: Unknown serializer"
E_decode == "decode error"
E_key == "KeyError"
E_range == "IndexError: Index out of range"
E_closed == "ValueError: I/O operation on closed file"
E_unfilled == "ValueError: Cant flush unfilled block without forcing"

(***************************************************************************)
(* read_preheader, read_header, read_index, read_block                     *)
(***************************************************************************)
\* a faulty variant: the magic string is not compared
read_preheader_anymagic(f) ==
    LET pre_header == Read(f, 0, PRE_HEADER_LEN)
    IN  IF Len(pre_header) # PRE_HEADER_LEN
        THEN [err |-> E_struct, version |-> 0, hdr_size |-> 0]
        ELSE [err |-> E_none,
              version |-> UnLE(SubSeq(pre_header, 13, 14)),
              hdr_size |-> UnLE(SubSeq(pre_header, 15, 18))]

read_preheader(f) ==
    LET pre_header == Read(f, 0, PRE_HEADER_LEN)
    IN  IF Len(pre_header) # PRE_HEADER_LEN
        THEN [err |-> E_struct, version |-> 0, hdr_size |-> 0]
        ELSE IF SubSeq(pre_header, 1, 12) # MAGIC_STRING
        THEN [err |-> E_magic, version |-> 0, hdr_size |-> 0]
        ELSE [err |-> E_none,
              version |-> UnLE(SubSeq(pre_header, 13, 14)),
              hdr_size |-> UnLE(SubSeq(pre_header, 15, 18))]

HeaderFail(e) == [err |-> e, header |-> NoneV]

\* the fields the callers read from the header; a missing one is a KeyError
HeaderFields(header) ==
    LET g(k) == MapGet(header, k)
    IN  IF \E k \in {K_index_start, K_index_size, K_block_length, K_length} :
              ~g(k).ok \/ g(k).v.t # "int"
        THEN [err |-> E_key]
        ELSE [err |-> E_none,
              index_start |-> g(K_index_start).v.n,
              index_size |-> g(K_index_size).v.n,
              block_length |-> g(K_block_length).v.n,
              length |-> g(K_length).v.n,
              compression |-> g(K_compression).v.s,
              serializer |-> g(K_serializer).v.s]

read_header(f) ==
    LET pre == read_preheader(f)
        header_chksum == Read(f, PRE_HEADER_LEN, CHECKSUM_LEN)
        header_raw == Read(f, PRE_HEADER_LEN + CHECKSUM_LEN, pre.hdr_size)
        un == msgpack_unpackb(header_raw)
        comp == MapGet(un.v, K_compression)
        ser == MapGet(un.v, K_serializer)
    IN  IF pre.err # E_none THEN HeaderFail(pre.err)
        ELSE IF pre.version # VERSION THEN HeaderFail(E_version)
        ELSE IF checksum(header_raw) # header_chksum THEN HeaderFail(E_header)
        ELSE IF ~un.ok THEN HeaderFail(E_decode)
        ELSE IF un.v.t # "map" \/ ~comp.ok THEN HeaderFail(E_key)
        ELSE IF ~(comp.v.t = "bin" /\ comp.v.s \in DECOMPRESSER_TABLE)
        THEN HeaderFail(E_compression)
        ELSE IF ~ser.ok THEN HeaderFail(E_key)
        ELSE IF ~(ser.v.t = "bin" /\ ser.v.s \in SERIALIZER_TABLE)
        THEN HeaderFail(E_serializer)
        ELSE [err |-> E_none, header |-> un.v]

\* the unpacked index as the list of its (block_start, block_size,
\* block_size_raw) entries
IsEntry(e) == e.t = "arr" /\ Len(e.items) = 3 /\ \A k \in 1..3 : e.items[k].t = "int"

IndexEntries(v) == [i \in 1..Len(v.items) |-> [k \in 1..3 |-> v.items[i].items[k].n]]

read_index(f, index_start, index_size, dname) ==
    LET index_chksum == Read(f, index_start, CHECKSUM_LEN)
        index_comp == Read(f, index_start + CHECKSUM_LEN, index_size)
        index_raw == decompress(dname, index_comp)
        un == msgpack_unpackb(index_raw.v)
    IN  IF checksum(index_comp) # index_chksum THEN [err |-> E_index, index |-> <<>>]
        ELSE IF ~index_raw.ok \/ ~un.ok THEN [err |-> E_decode, index |-> <<>>]
        ELSE IF un.v.t # "arr" \/ \E i \in 1..Len(un.v.items) : ~IsEntry(un.v.items[i])
        THEN [err |-> E_decode, index |-> <<>>]
        ELSE [err |-> E_none, index |-> IndexEntries(un.v)]

\* the n-th block (n counted from 0), decompressed
read_block(f, index, n, dname) ==
    LET block_start == index[n + 1][1]
        block_size == index[n + 1][2]
        block_chksum == Read(f, block_start, CHECKSUM_LEN)
        block_comp == Read(f, block_start + CHECKSUM_LEN, block_size)
        raw == decompress(dname, block_comp)
    IN  IF checksum(block_comp) # block_chksum
        THEN [err |-> E_block, n |-> n, block_raw |-> <<>>]
        ELSE IF ~raw.ok THEN [err |-> E_decode, n |-> n, block_raw |-> <<>>]
        ELSE [err |-> E_none, n |-> n, block_raw |-> raw.v]

\* a block is a list of str, one serialized record each
IsBlock(v) == v.t = "arr" /\ \A i \in 1..Len(v.items) : v.items[i].t = "bin"

BlockItems(v) == [i \in 1..Len(v.items) |-> v.items[i].s]

\* msgpack_unpackb(block_raw): the items of the block
unpack_block(block_raw) ==
    LET un == msgpack_unpackb(block_raw)
    IN  IF un.ok /\ IsBlock(un.v) THEN [err |-> E_none, block |-> BlockItems(un.v)]
        ELSE [err |-> E_decode, block |-> <<>>]

(***************************************************************************)
(* DatasetReader.  fobj is "none", "open" or "closed"; closed is the       *)
(* _closed attribute runonce sets; cur_block = <<>> stands for None.       *)
(***************************************************************************)
NoReader ==
    [kind |-> "none", fobj |-> "none", closed |-> FALSE, block_length |-> 0,
     length |-> 0, compression |-> <<>>, index |-> <<>>,
     cur_block_idx |-> -1, cur_block |-> <<>>]

\* DatasetReader.__init__
DatasetReader_init(f) ==
    With(read_header(f), LAMBDA h :
    With(HeaderFields(h.header), LAMBDA hf :
    With(read_index(f, hf.index_start, hf.index_size, hf.compression), LAMBDA ix :
        IF ~f.exists THEN [err |-> E_nofile, rd |-> NoReader]
        ELSE IF h.err # E_none THEN [err |-> h.err, rd |-> NoReader]
        ELSE IF hf.err # E_none THEN [err |-> hf.err, rd |-> NoReader]
        ELSE IF ix.err # E_none THEN [err |-> ix.err, rd |-> NoReader]
        ELSE [err |-> E_none,
              rd |-> [kind |-> "reader", fobj |-> "open", closed |-> FALSE,
                      block_length |-> hf.block_length, length |-> hf.length,
                      compression |-> hf.compression, index |-> ix.index,
                      cur_block_idx |-> -1, cur_block |-> <<>>]])))

\* DatasetReader._load_block; the assert of read_block fails outside the index
E_assert == "AssertionError"

load_block(self, f, i) ==
    IF ~(0 <= i /\ i < Len(self.index)) THEN [err |-> E_assert, n |-> i, block |-> <<>>]
    ELSE With(read_block(f, self.index, i, self.compression), LAMBDA rb :
         With(unpack_block(rb.block_raw), LAMBDA ub :
            IF rb.err # E_none THEN [err |-> rb.err, n |-> i, block |-> <<>>]
            ELSE [err |-> ub.err, n |-> i, block |-> ub.block]))

\* self.unserialize(block[j]), j counted from 0
item_at(block, j) ==
    IF j >= Len(block) THEN [err |-> E_range, v |-> NoneV]
    ELSE With(msgpack_unpackb(block[j + 1]), LAMBDA un :
            IF ~un.ok THEN [err |-> E_decode, v |-> NoneV]
            ELSE [err |-> E_none, v |-> un.v])

\* n // 0
E_zerodiv == "ZeroDivisionError"

\* the block that holds item n, from the one-entry cache (cbi, cb) or from
\* the file
\* a faulty variant: a cached block is never replaced
fetch_stale(self, f, n, cbi, cb) ==
    LET i == n \div self.block_length
        j == n % self.block_length
    IN  IF self.block_length = 0
        THEN [err |-> E_zerodiv, n |-> -1, v |-> NoneV, cbi |-> cbi, cb |-> cb]
        ELSE With(IF cbi = -1 THEN load_block(self, f, i)
                  ELSE [err |-> E_none, n |-> cbi, block |-> cb], LAMBDA lb :
             With(item_at(lb.block, j), LAMBDA it :
                IF lb.err # E_none
                THEN [err |-> lb.err, n |-> i, v |-> NoneV, cbi |-> cbi, cb |-> cb]
                ELSE [err |-> it.err, n |-> i, v |-> it.v, cbi |-> lb.n, cb |-> lb.block]))

fetch(self, f, n, cbi, cb) ==
    LET i == n \div self.block_length
        j == n % self.block_length
    IN  IF self.block_length = 0
        THEN [err |-> E_zerodiv, n |-> -1, v |-> NoneV, cbi |-> cbi, cb |-> cb]
        ELSE With(IF cbi # i THEN load_block(self, f, i)
                  ELSE [err |-> E_none, n |-> i, block |-> cb], LAMBDA lb :
             With(item_at(lb.block, j), LAMBDA it :
                IF lb.err # E_none
                THEN [err |-> lb.err, n |-> i, v |-> NoneV, cbi |-> cbi, cb |-> cb]
                ELSE [err |-> it.err, n |-> i, v |-> it.v, cbi |-> i, cb |-> lb.block]))

\* DatasetReader.get_idx: the outcome and the reader after the call
\* a faulty variant: a negative index is subtracted instead of added
get_idx_wrongsign(self, f, n0) ==
    LET n == IF n0 < 0 THEN self.length - n0 ELSE n0
    IN  IF n < 0 \/ n >= self.length
        THEN [err |-> E_range, blk |-> -1, v |-> <<>>, self |-> self]
        ELSE With(fetch(self, f, n, self.cur_block_idx, self.cur_block), LAMBDA r :
                [err |-> r.err, blk |-> r.n, v |-> IF r.err = E_none THEN <<r.v>> ELSE <<>>,
                 self |-> [self EXCEPT !.cur_block_idx = r.cbi, !.cur_block = r.cb]])

get_idx(self, f, n0) ==
    LET n == IF n0 < 0 THEN self.length + n0 ELSE n0
    IN  IF n < 0 \/ n >= self.length
        THEN [err |-> E_range, blk |-> -1, v |-> <<>>, self |-> self]
        ELSE With(fetch(self, f, n, self.cur_block_idx, self.cur_block), LAMBDA r :
                [err |-> r.err, blk |-> r.n, v |-> IF r.err = E_none THEN <<r.v>> ELSE <<>>,
                 self |-> [self EXCEPT !.cur_block_idx = r.cbi, !.cur_block = r.cb]])

\* Python's a // b (the floor of the quotient) for b # 0
FloorDiv(a, b) ==
    IF b > 0 THEN a \div b ELSE (0 - a) \div (0 - b)

\* a faulty variant of slice_indices: the bounds are taken as given, neither
\* counted from the end nor clamped to the length
slice_indices_unclamped(start, stop, step0, length) ==
    LET step == IF step0 = <<>> THEN 1 ELSE step0[1]
    IN  <<IF start = <<>> THEN (IF step < 0 THEN length - 1 ELSE 0) ELSE start[1],
          IF stop = <<>> THEN (IF step < 0 THEN -1 ELSE length) ELSE stop[1],
          step>>

\* slice(start, stop, step).indices(length); an optional argument is <<>>
\* for None and <<x>> for x
slice_indices(start, stop, step0, length) ==
    LET step == IF step0 = <<>> THEN 1 ELSE step0[1]
        lower == IF step < 0 THEN -1 ELSE 0
        upper == IF step < 0 THEN length - 1 ELSE length
        clamp(x) == LET y == IF x < 0 THEN x + length ELSE x
                    IN  IF y < lower THEN lower ELSE IF y > upper THEN upper ELSE y
    IN  <<IF start = <<>> THEN (IF step < 0 THEN upper ELSE lower) ELSE clamp(start[1]),
          IF stop = <<>> THEN (IF step < 0 THEN lower ELSE upper) ELSE clamp(stop[1]),
          step>>

\* the body of a loop over the indices n, n + step, ... short of stop, with
\* a cache that is local to the call
RECURSIVE fetch_range(_, _, _, _, _, _, _, _)
fetch_range(self, f, n, stop, step, cbi, cb, acc) ==
    IF (step > 0 /\ n >= stop) \/ (step < 0 /\ n <= stop)
    THEN [err |-> E_none, blk |-> -1, v |-> acc]
    ELSE With(fetch(self, f, n, cbi, cb), LAMBDA r :
            IF r.err # E_none THEN [err |-> r.err, blk |-> r.n, v |-> <<>>]
            ELSE fetch_range(self, f, n + step, stop, step, r.cbi, r.cb, Append(acc, r.v)))

\* list(DatasetReader.get_slice(start, stop, step))
get_slice(self, f, start, stop, step0) ==
    With(slice_indices(start, stop, step0, self.length), LAMBDA ind :
        LET n == FloorDiv(ind[2] - ind[1], ind[3])
            end == ind[1] + (n - 1) * ind[3]
        IN  IF n <= 0 THEN [err |-> E_none, blk |-> -1, v |-> <<>>]
            ELSE IF ind[1] < 0 \/ ind[1] >= self.length
            THEN [err |-> E_range, blk |-> -1, v |-> <<>>]
            ELSE IF end < 0 \/ end >= self.length
            THEN [err |-> E_range, blk |-> -1, v |-> <<>>]
            ELSE fetch_range(self, f, ind[1], ind[2], ind[3], -1, <<>>, <<>>))

\* list(DatasetReader.get_idxs(ns))
RECURSIVE fetch_idxs(_, _, _, _, _, _, _)
fetch_idxs(self, f, ns, k, cbi, cb, acc) ==
    IF k > Len(ns) THEN [err |-> E_none, blk |-> -1, v |-> acc]
    ELSE LET n == IF ns[k] < 0 THEN self.length + ns[k] ELSE ns[k]
         IN  IF n < 0 \/ n >= self.length THEN [err |-> E_range, blk |-> -1, v |-> <<>>]
             ELSE With(fetch(self, f, n, cbi, cb), LAMBDA r :
                    IF r.err # E_none THEN [err |-> r.err, blk |-> r.n, v |-> <<>>]
                    ELSE fetch_idxs(self, f, ns, k + 1, r.cbi, r.cb, Append(acc, r.v)))

get_idxs(self, f, ns) == fetch_idxs(self, f, ns, 1, -1, <<>>, <<>>)

\* list(iter(reader)): every item of every block of the index, in order
RECURSIVE unserialize_all(_, _, _)
unserialize_all(block, j, acc) ==
    IF j >= Len(block) THEN [err |-> E_none, v |-> acc]
    ELSE With(item_at(block, j), LAMBDA it :
            IF it.err # E_none THEN [err |-> it.err, v |-> <<>>]
            ELSE unserialize_all(block, j + 1, Append(acc, it.v)))

RECURSIVE iter_blocks(_, _, _, _)
iter_blocks(self, f, i, acc) ==
    IF i >= Len(self.index) THEN [err |-> E_none, blk |-> -1, v |-> acc]
    ELSE With(load_block(self, f, i), LAMBDA lb :
            IF lb.err # E_none THEN [err |-> lb.err, blk |-> i, v |-> <<>>]
            ELSE With(unserialize_all(lb.block, 0, acc), LAMBDA us :
                    IF us.err # E_none THEN [err |-> us.err, blk |-> i, v |-> <<>>]
                    ELSE iter_blocks(self, f, i + 1, us.v)))

reader_iter(self, f) == iter_blocks(self, f, 0, <<>>)

(***************************************************************************)
(* DatasetWriter and DatasetAppender.  pos is the position of fobj; fobj   *)
(* is "open", "closed", or "none" once the caller has dropped the handle   *)
(* (dset.fobj = None); closed is the _closed attribute runonce sets.       *)
(***************************************************************************)
NoWriter ==
    [kind |-> "none", fobj |-> "none", closed |-> FALSE, pos |-> 0,
     block_length |-> 0, length |-> 0, compression |-> <<>>, serializer |-> <<>>,
     cur_block |-> <<>>, cur_block_idx |-> 0, index |-> <<>>]

E_vblock == "ValueError: Block length must be at-least 1"
E_vcompression == "ValueError: Unknown compression"
E_vserializer == "ValueError: Unknown serializer"

\* DatasetWriter.__init__: the file is truncated by open(fname, "wb"), the
\* arguments are checked, and the header reservation is filled with the
\* placeholder
\* a faulty variant: the arguments are taken as they are
DatasetWriter_init_unchecked(block_length, compression, serializer) ==
    [err |-> E_none,
     f |-> NewFile,
     self |-> [kind |-> "writer", fobj |-> "open", closed |-> FALSE,
               pos |-> HEADER_SPACE, block_length |-> block_length, length |-> 0,
               compression |-> compression, serializer |-> serializer,
               cur_block |-> <<>>, cur_block_idx |-> 0, index |-> <<>>]]

DatasetWriter_init(block_length, compression, serializer) ==
    IF block_length < 1 THEN [err |-> E_vblock, f |-> EmptyFile, self |-> NoWriter]
    ELSE IF compression \notin COMPRESSER_TABLE
    THEN [err |-> E_vcompression, f |-> EmptyFile, self |-> NoWriter]
    ELSE IF serializer \notin SERIALIZER_TABLE
    THEN [err |-> E_vserializer, f |-> EmptyFile, self |-> NoWriter]
    ELSE [err |-> E_none,
          f |-> NewFile,
          self |-> [kind |-> "writer", fobj |-> "open", closed |-> FALSE,
                    pos |-> HEADER_SPACE, block_length |-> block_length, length |-> 0,
                    compression |-> compression, serializer |-> serializer,
                    cur_block |-> <<>>, cur_block_idx |-> 0, index |-> <<>>]]

\* the records of a block as the list of str msgpack packs
BlockV(cur_block) == ArrV([i \in 1..Len(cur_block) |-> BinV(cur_block[i])])

\* the index as the list of (start, size, raw size) entries msgpack packs
IndexV(index) ==
    ArrV([i \in 1..Len(index) |-> ArrV([k \in 1..3 |-> IntV(index[i][k])])])

\* DatasetWriter._flush
\* a faulty variant: the flushed records stay in cur_block
flush_keep_block(self, f, force) ==
    With(msgpack_packb(BlockV(self.cur_block)), LAMBDA block_raw :
    With(compress(self.compression, block_raw), LAMBDA block_comp :
    With(checksum(block_comp) \o block_comp, LAMBDA out_bytes :
        IF Len(self.cur_block) # self.block_length /\ ~force
        THEN [err |-> E_unfilled, self |-> self, f |-> f]
        ELSE IF self.cur_block = <<>> THEN [err |-> E_none, self |-> self, f |-> f]
        ELSE IF self.fobj # "open" THEN [err |-> E_closed, self |-> self, f |-> f]
        ELSE [err |-> E_none,
              f |-> Write(f, self.pos, out_bytes),
              self |-> [self EXCEPT
                          !.index = Append(@, <<self.pos, Len(block_comp), Len(block_raw)>>),
                          !.pos = @ + Len(out_bytes),
                          !.cur_block_idx = @ + 1]])))

\* a faulty variant: an unfilled block is flushed without force
flush_unguarded(self, f, force) ==
    With(msgpack_packb(BlockV(self.cur_block)), LAMBDA block_raw :
    With(compress(self.compression, block_raw), LAMBDA block_comp :
    With(checksum(block_comp) \o block_comp, LAMBDA out_bytes :
        IF self.cur_block = <<>> THEN [err |-> E_none, self |-> self, f |-> f]
        ELSE IF self.fobj # "open" THEN [err |-> E_closed, self |-> self, f |-> f]
        ELSE [err |-> E_none,
              f |-> Write(f, self.pos, out_bytes),
              self |-> [self EXCEPT
                          !.index = Append(@, <<self.pos, Len(block_comp), Len(block_raw)>>),
                          !.pos = @ + Len(out_bytes),
                          !.cur_block = <<>>,
                          !.cur_block_idx = @ + 1]])))

\* a faulty variant: the position of fobj stays where the block began
flush_no_advance(self, f, force) ==
    With(msgpack_packb(BlockV(self.cur_block)), LAMBDA block_raw :
    With(compress(self.compression, block_raw), LAMBDA block_comp :
    With(checksum(block_comp) \o block_comp, LAMBDA out_bytes :
        IF Len(self.cur_block) # self.block_length /\ ~force
        THEN [err |-> E_unfilled, self |-> self, f |-> f]
        ELSE IF self.cur_block = <<>> THEN [err |-> E_none, self |-> self, f |-> f]
        ELSE IF self.fobj # "open" THEN [err |-> E_closed, self |-> self, f |-> f]
        ELSE [err |-> E_none,
              f |-> Write(f, self.pos, out_bytes),
              self |-> [self EXCEPT
                          !.index = Append(@, <<self.pos, Len(block_comp), Len(block_raw)>>),
                          !.cur_block = <<>>,
                          !.cur_block_idx = @ + 1]])))

\* a faulty variant: an empty block is written too
flush_empty_block(self, f, force) ==
    With(msgpack_packb(BlockV(self.cur_block)), LAMBDA block_raw :
    With(compress(self.compression, block_raw), LAMBDA block_comp :
    With(checksum(block_comp) \o block_comp, LAMBDA out_bytes :
        IF Len(self.cur_block) # self.block_length /\ ~force
        THEN [err |-> E_unfilled, self |-> self, f |-> f]
        ELSE IF self.fobj # "open" THEN [err |-> E_closed, self |-> self, f |-> f]
        ELSE [err |-> E_none,
              f |-> Write(f, self.pos, out_bytes),
              self |-> [self EXCEPT
                          !.index = Append(@, <<self.pos, Len(block_comp), Len(block_raw)>>),
                          !.pos = @ + Len(out_bytes),
                          !.cur_block = <<>>,
                          !.cur_block_idx = @ + 1]])))

flush(self, f, force) ==
    With(msgpack_packb(BlockV(self.cur_block)), LAMBDA block_raw :
    With(compress(self.compression, block_raw), LAMBDA block_comp :
    With(checksum(block_comp) \o block_comp, LAMBDA out_bytes :
        IF Len(self.cur_block) # self.block_length /\ ~force
        THEN [err |-> E_unfilled, self |-> self, f |-> f]
        ELSE IF self.cur_block = <<>> THEN [err |-> E_none, self |-> self, f |-> f]
        ELSE IF self.fobj # "open" THEN [err |-> E_closed, self |-> self, f |-> f]
        ELSE [err |-> E_none,
              f |-> Write(f, self.pos, out_bytes),
              self |-> [self EXCEPT
                          !.index = Append(@, <<self.pos, Len(block_comp), Len(block_raw)>>),
                          !.pos = @ + Len(out_bytes),
                          !.cur_block = <<>>,
                          !.cur_block_idx = @ + 1]])))

\* DatasetWriter._write_index
write_index(self, f) ==
    With(msgpack_packb(IndexV(self.index)), LAMBDA index_raw :
    With(compress(self.compression, index_raw), LAMBDA index_comp :
    With(checksum(index_comp) \o index_comp, LAMBDA out_bytes :
        IF self.fobj # "open"
        THEN [err |-> E_closed, self |-> self, f |-> f,
              index_start |-> 0, index_size |-> 0, index_size_raw |-> 0]
        ELSE [err |-> E_none,
              f |-> Write(f, self.pos, out_bytes),
              self |-> [self EXCEPT !.pos = @ + Len(out_bytes)],
              index_start |-> self.pos,
              index_size |-> Len(index_comp),
              index_size_raw |-> Len(index_raw)])))

\* the dict _write_header packs, its pairs in the order of the source
HeaderV(self, index_start, index_size, index_size_raw) ==
    MapV(<<BinV(K_index_start), IntV(index_start),
           BinV(K_index_size), IntV(index_size),
           BinV(K_index_raw), IntV(index_size_raw),
           BinV(K_serializer), BinV(self.serializer),
           BinV(K_compression), BinV(self.compression),
           BinV(K_block_length), IntV(self.block_length),
           BinV(K_length), IntV(self.length)>>)

\* DatasetWriter._write_header
write_header(self, f, index_start, index_size, index_size_raw) ==
    With(msgpack_packb(HeaderV(self, index_start, index_size, index_size_raw)),
         LAMBDA header_raw :
    With(MAGIC_STRING \o LE(VERSION, 2) \o LE(Len(header_raw), 4), LAMBDA pre_header :
    With(pre_header \o checksum(header_raw) \o header_raw, LAMBDA out_bytes :
        IF Len(out_bytes) >= HEADER_SPACE THEN [err |-> E_assert, self |-> self, f |-> f]
        ELSE IF self.fobj # "open" THEN [err |-> E_closed, self |-> self, f |-> f]
        ELSE [err |-> E_none,
              f |-> Write(f, 0, out_bytes),
              self |-> [self EXCEPT !.pos = Len(out_bytes)]])))

\* the body of DatasetWriter.close
writer_close(self, f) ==
    IF self.fobj = "none" THEN [err |-> E_none, self |-> self, f |-> f]
    ELSE With(flush(self, f, TRUE), LAMBDA fl :
         IF fl.err # E_none THEN fl
         ELSE With(write_index(fl.self, fl.f), LAMBDA wi :
              IF wi.err # E_none THEN [err |-> wi.err, self |-> wi.self, f |-> wi.f]
              ELSE With(write_header(wi.self, wi.f, wi.index_start, wi.index_size,
                                     wi.index_size_raw), LAMBDA wh :
                   IF wh.err # E_none THEN wh
                   ELSE [err |-> E_none, self |-> [wh.self EXCEPT !.fobj = "closed"],
                         f |-> wh.f])))

\* pypb.abs.runonce: whether the wrapped method is skipped
\* a faulty variant: close runs every time
runonce_never(self) == FALSE

runonce_skips(self) == self.closed

\* self.serialize(item)
serialize(item) == msgpack_packb(item)

\* DatasetWriter.append
\* a faulty variant: every appended record is flushed at once
writer_append_through(self, f, item) ==
    flush([self EXCEPT !.cur_block = Append(@, serialize(item)), !.length = @ + 1],
          f, TRUE)

writer_append(self, f, item) ==
    With(IF Len(self.cur_block) = self.block_length THEN flush(self, f, FALSE)
         ELSE [err |-> E_none, self |-> self, f |-> f], LAMBDA fl :
        IF fl.err # E_none THEN fl
        ELSE [err |-> E_none, f |-> fl.f,
              self |-> [fl.self EXCEPT !.cur_block = Append(@, serialize(item)),
                                       !.length = @ + 1]])

\* DatasetWriter.extend
RECURSIVE extend_loop(_, _, _, _)
extend_loop(self, f, items, k) ==
    IF k > Len(items) THEN [err |-> E_none, self |-> self, f |-> f]
    ELSE With([self EXCEPT !.cur_block = Append(@, serialize(items[k])),
                           !.length = @ + 1], LAMBDA s1 :
         With(IF Len(s1.cur_block) = s1.block_length THEN flush(s1, f, FALSE)
              ELSE [err |-> E_none, self |-> s1, f |-> f], LAMBDA fl :
            IF fl.err # E_none THEN fl
            ELSE extend_loop(fl.self, fl.f, items, k + 1)))

writer_extend(self, f, items) ==
    With(IF Len(self.cur_block) = self.block_length THEN flush(self, f, FALSE)
         ELSE [err |-> E_none, self |-> self, f |-> f], LAMBDA fl :
        IF fl.err # E_none THEN fl
        ELSE extend_loop(fl.self, fl.f, items, 1))

\* DatasetAppender.__init__
\* a faulty variant: writing resumes at the old index
appender_seek_wrong(index_start, index_size) == index_start

appender_seek(index_start, index_size) == index_start + CHECKSUM_LEN + index_size

\* a faulty variant: the entry of the reloaded block stays in the index
appender_pop_keep(index) == index

appender_pop(index) == SubSeq(index, 1, Len(index) - 1)

\* a faulty variant: the Appender writes with the default compression
appender_resume_default(f, hf, index) ==
    LET partial == Len(index) > 0 /\ hf.length % hf.block_length # 0
        self == [kind |-> "appender", fobj |-> "open", closed |-> FALSE,
                 pos |-> appender_seek(hf.index_start, hf.index_size),
                 block_length |-> hf.block_length, length |-> hf.length,
                 compression |-> S_lz4, serializer |-> hf.serializer,
                 cur_block |-> <<>>, cur_block_idx |-> Len(index), index |-> index]
    IN  IF Len(index) > 0 /\ hf.block_length = 0 THEN [err |-> E_zerodiv, self |-> NoWriter]
        ELSE IF ~partial THEN [err |-> E_none, self |-> self]
        ELSE With(read_block(f, index, Len(index) - 1, hf.compression), LAMBDA rb :
             With(unpack_block(rb.block_raw), LAMBDA ub :
                IF rb.err # E_none THEN [err |-> rb.err, self |-> NoWriter]
                ELSE IF ub.err # E_none THEN [err |-> ub.err, self |-> NoWriter]
                ELSE [err |-> E_none,
                      self |-> [self EXCEPT !.cur_block = ub.block,
                                            !.cur_block_idx = Len(index) - 1,
                                            !.index = appender_pop(index)]]))

\* the Appender of a file with header fields hf and index: the records of a
\* partial last block are loaded and its index entry is removed
appender_resume(f, hf, index) ==
    LET partial == Len(index) > 0 /\ hf.length % hf.block_length # 0
        self == [kind |-> "appender", fobj |-> "open", closed |-> FALSE,
                 pos |-> appender_seek(hf.index_start, hf.index_size),
                 block_length |-> hf.block_length, length |-> hf.length,
                 compression |-> hf.compression, serializer |-> hf.serializer,
                 cur_block |-> <<>>, cur_block_idx |-> Len(index), index |-> index]
    IN  IF Len(index) > 0 /\ hf.block_length = 0 THEN [err |-> E_zerodiv, self |-> NoWriter]
        ELSE IF ~partial THEN [err |-> E_none, self |-> self]
        ELSE With(read_block(f, index, Len(index) - 1, hf.compression), LAMBDA rb :
             With(unpack_block(rb.block_raw), LAMBDA ub :
                IF rb.err # E_none THEN [err |-> rb.err, self |-> NoWriter]
                ELSE IF ub.err # E_none THEN [err |-> ub.err, self |-> NoWriter]
                ELSE [err |-> E_none,
                      self |-> [self EXCEPT !.cur_block = ub.block,
                                            !.cur_block_idx = Len(index) - 1,
                                            !.index = appender_pop(index)]]))

DatasetAppender_init(f) ==
    With(read_header(f), LAMBDA h :
    With(HeaderFields(h.header), LAMBDA hf :
    With(read_index(f, hf.index_start, hf.index_size, hf.compression), LAMBDA ix :
        IF ~f.exists THEN [err |-> E_nofile, self |-> NoWriter]
        ELSE IF h.err # E_none THEN [err |-> h.err, self |-> NoWriter]
        ELSE IF hf.err # E_none THEN [err |-> hf.err, self |-> NoWriter]
        ELSE IF ix.err # E_none THEN [err |-> ix.err, self |-> NoWriter]
        ELSE IF hf.compression \notin COMPRESSER_TABLE
        THEN [err |-> E_vcompression, self |-> NoWriter]
        ELSE IF hf.serializer \notin SERIALIZER_TABLE
        THEN [err |-> E_vserializer, self |-> NoWriter]
        ELSE appender_resume(f, hf, ix.index))))

(***************************************************************************)
(* The state.                                                              *)
(*   file     the dataset file                                             *)
(*   wr       the DatasetWriter or DatasetAppender object, if any          *)
(*   rd       the DatasetReader object, if any                             *)
(*   werr     the outcome of the last Writer/Appender call ("": returned)  *)
(*   out      the outcome of the last Reader call, until the caller has    *)
(*            taken it                                                     *)
(* History the claims speak about:                                         *)
(*   data     the records of the dataset as of the last completed close    *)
(*   pending  the records handed to append/extend in the current session   *)
(*   snap     the file as it was when the current session opened it        *)
(*   sess     the latest session: its kind, how it ended, the number n of  *)
(*            records handed over in it, whether they filled a block, and  *)
(*            whether no session of the file was abandoned so far (clean)  *)
(*   recl     whether the last close() of the writer (w) and of the reader *)
(*            (r) was a repeated one, on an object closed before           *)
(*   nsess    Appender sessions opened on the file                         *)
(*   nrec     records handed to append/extend since the file was created   *)
(*   wcall    op: the mode of the open() for writing whose outcome werr    *)
(*            holds, "" once another call was made; args: the arguments of *)
(*            the last open() in write mode                                *)
(* The position of the caller inside close():                              *)
(*   pc       at: "idle" outside close(), else the statement of close()    *)
(*            that ran last; the values _write_index returned              *)
(***************************************************************************)
VARIABLES file, wr, rd, werr, out, data, pending, snap, sess, recl, nsess, nrec,
          damage, wcall, pc

\* pypb.dist: the Source, the Sink and the Workers, and the messages in
\* flight on the REQ/REP sockets (a request to the source or to the sink,
\* and the reply to it, per requester)
VARIABLES src, snk, wk, sreq, srep, treq, trep

dset == <<file, wr, rd, werr, out, data, pending, snap, sess, recl, nsess, nrec, damage,
          wcall, pc>>

mw4s == <<src, snk, wk, sreq, srep, treq, trep>>

vars == <<dset, mw4s>>

\* the number of Worker processes
MaxWorkers == 2
\* the number of tasks the Source's program has to send
MaxTasks == 2

Workers == 1..MaxWorkers

\* the requesters of the Sink's socket: the Workers and the Source
SOURCE == MaxWorkers + 1
Peers == Workers \cup {SOURCE}

\* a pickled object on a socket: c is its class, v its value
PyObj(c, v) == [c |-> c, v |-> v]
None == PyObj("NoneType", 0)
WorkerJoinMessage == PyObj("WorkerJoinMessage", 0)
WorkerExitedMessage == PyObj("WorkerExitedMessage", 0)
NoMoreJobsMessage == PyObj("NoMoreJobsMessage", 0)
SourceExitedMessage == PyObj("SourceExitedMessage", 0)
\* the k-th task of the Source's program, and the result a Worker makes of it
Task(k) == PyObj("task", k)
ResultOf(task) == PyObj("result", task.v)
\* no message
Silent == PyObj("", 0)

isinstance(obj, class) == obj.c = class.c

\* Source.__init__, Sink.__init__, and Workers that have not been created
DistInit ==
    /\ src = [at |-> "run", nworkers |-> 0, sent |-> 0, closed |-> FALSE, err |-> FALSE]
    /\ snk = [at |-> "iter", nworkers |-> 0, source_closed |-> FALSE, got |-> <<>>]
    /\ wk = [w \in Workers |-> [at |-> "new", got |-> <<>>, sent |-> <<>>, err |-> FALSE]]
    /\ sreq = [w \in Workers |-> Silent]
    /\ srep = [w \in Workers |-> Silent]
    /\ treq = [p \in Peers |-> Silent]
    /\ trep = [p \in Peers |-> Silent]

Idle == [op |-> "idle", args |-> <<>>, err |-> E_none, blk |-> -1, v |-> <<>>]

Result(op, args, r) == [op |-> op, args |-> args, err |-> r.err, blk |-> r.blk, v |-> r.v]

NoDamage == [unit |-> "none", n |-> -1]

NoCall == [op |-> "", args |-> <<>>]

NotClosing == [at |-> "idle", index_start |-> 0, index_size |-> 0, index_size_raw |-> 0]

NoSession ==
    [kind |-> "none", end |-> "closed", n |-> 0, filled |-> FALSE, clean |-> TRUE]

Init ==
    /\ file = NoFile
    /\ wr = NoWriter
    /\ rd = NoReader
    /\ werr = E_none
    /\ out = Idle
    /\ data = <<>>
    /\ pending = <<>>
    /\ snap = NoFile
    /\ sess = NoSession
    /\ recl = [w |-> FALSE, r |-> FALSE]
    /\ nsess = 0
    /\ nrec = 0
    /\ damage = NoDamage
    /\ wcall = NoCall
    /\ pc = NotClosing
    /\ DistInit

\* no session holds the file: the caller keeps writers and readers apart
NoHandle == wr.kind = "none" /\ rd.kind = "none" /\ out.op = "idle"

WriterOpen == wr.kind # "none" /\ ~wr.closed /\ wr.fobj = "open" /\ pc.at = "idle"

ReaderOpen == rd.kind = "reader" /\ ~rd.closed

(***************************************************************************)
(* Writer and Appender sessions.                                           *)
(***************************************************************************)
\* pypb.dset.open(fname, "w", block_length, compression, serializer)
OpenWriter(block_length, compression, serializer) ==
    /\ NoHandle
    /\ \E r \in {DatasetWriter_init(block_length, compression, serializer)} :
           /\ file' = r.f
           /\ wr' = r.self
           /\ werr' = r.err
           /\ snap' = r.f
           /\ sess' = IF r.err = E_none
                      THEN [NoSession EXCEPT !.kind = "writer", !.end = "open"]
                      ELSE NoSession
    /\ data' = <<>>
    /\ pending' = <<>>
    /\ recl' = [recl EXCEPT !.w = FALSE]
    /\ nsess' = 0
    /\ nrec' = 0
    /\ damage' = NoDamage
    /\ wcall' = [op |-> "w", args |-> <<block_length, compression, serializer>>]
    /\ UNCHANGED <<rd, out, pc, mw4s>>

\* pypb.dset.open(fname, "a")
OpenAppender ==
    /\ NoHandle
    /\ nsess < MaxSessions
    /\ \E r \in {DatasetAppender_init(file)} :
           /\ wr' = r.self
           /\ werr' = r.err
           /\ nsess' = IF r.err = E_none THEN nsess + 1 ELSE nsess
           /\ sess' = IF r.err = E_none
                      THEN [NoSession EXCEPT !.kind = "appender", !.end = "open",
                                             !.clean = sess.clean]
                      ELSE sess
    /\ snap' = file
    /\ pending' = <<>>
    /\ recl' = [recl EXCEPT !.w = FALSE]
    /\ wcall' = [wcall EXCEPT !.op = "a"]
    /\ UNCHANGED <<file, rd, out, data, nrec, damage, pc, mw4s>>

\* the session after n more records were handed to a writer holding cur
\* records of a block of block_length
Handed(n, cur, block_length) ==
    [sess EXCEPT !.n = @ + n,
                 !.filled = @ \/ (n > 0 /\ cur + n >= block_length)]

\* dset.append(item), item the next record of the stream
DoAppend ==
    /\ WriterOpen
    /\ nrec < MaxLen
    /\ \E r \in {writer_append(wr, file, Rec(nrec + 1))} :
           /\ wr' = r.self
           /\ file' = r.f
           /\ werr' = r.err
    /\ pending' = Append(pending, Rec(nrec + 1))
    /\ sess' = Handed(1, Len(wr.cur_block), wr.block_length)
    /\ nrec' = nrec + 1
    /\ wcall' = [wcall EXCEPT !.op = ""]
    /\ UNCHANGED <<rd, out, data, snap, recl, nsess, damage, pc, mw4s>>

\* dset.extend(items), items the next n records of the stream
DoExtend(n) ==
    /\ WriterOpen
    /\ \E r \in {writer_extend(wr, file, RecsFrom(nrec, n))} :
           /\ wr' = r.self
           /\ file' = r.f
           /\ werr' = r.err
    /\ pending' = pending \o RecsFrom(nrec, n)
    /\ sess' = Handed(n, Len(wr.cur_block), wr.block_length)
    /\ nrec' = nrec + n
    /\ wcall' = [wcall EXCEPT !.op = ""]
    /\ UNCHANGED <<rd, out, data, snap, recl, nsess, damage, pc, mw4s>>

\* dset.fobj = None: the caller drops the handle, so that close() has
\* nothing to write; what was written before reaches the file
Abandon ==
    /\ WriterOpen
    /\ wr' = [wr EXCEPT !.fobj = "none"]
    /\ sess' = [sess EXCEPT !.end = "abandoned", !.clean = FALSE]
    /\ UNCHANGED <<file, rd, werr, out, data, pending, snap, recl, nsess, nrec, damage, wcall, pc, mw4s>>

\* the effect of close() under runonce on the writer and the file
CloseEffect ==
    IF runonce_skips(wr)
    THEN /\ werr' = E_none
         /\ UNCHANGED <<file, wr, data, pending, sess>>
    ELSE \E r \in {writer_close(wr, file)} :
             LET done == wr.fobj = "open" /\ r.err = E_none
             IN  /\ wr' = [r.self EXCEPT !.closed = TRUE]
                 /\ file' = r.f
                 /\ werr' = r.err
                 /\ data' = IF done THEN data \o pending ELSE data
                 /\ pending' = <<>>
                 /\ sess' = IF done THEN [sess EXCEPT !.end = "closed"] ELSE sess

\* dset.close(), also at the end of a with block
CloseWriter ==
    /\ wr.kind # "none"
    /\ pc.at = "idle"
    /\ CloseEffect
    /\ recl' = [recl EXCEPT !.w = wr.closed]
    /\ wcall' = [wcall EXCEPT !.op = ""]
    /\ UNCHANGED <<rd, out, snap, nsess, nrec, damage, pc, mw4s>>

\* Close.__del__ of a closed writer: the object is gone
DelWriter ==
    /\ wr.kind # "none"
    /\ wr.closed
    /\ pc.at = "idle"
    /\ wr' = NoWriter
    /\ recl' = [recl EXCEPT !.w = FALSE]
    /\ UNCHANGED <<file, rd, werr, out, data, pending, snap, sess, nsess, nrec, damage, wcall, pc, mw4s>>

(***************************************************************************)
(* Reader sessions.  A call is made when the caller holds no outcome; the  *)
(* caller then takes the outcome (Return).                                 *)
(***************************************************************************)
\* pypb.dset.open(fname)
OpenReader ==
    /\ NoHandle
    /\ \E r \in {DatasetReader_init(file)} :
           /\ rd' = r.rd
           /\ out' = [Idle EXCEPT !.op = "open", !.err = r.err]
    /\ recl' = [recl EXCEPT !.r = FALSE]
    /\ UNCHANGED <<file, wr, werr, data, pending, snap, sess, nsess, nrec, damage, wcall, pc, mw4s>>

\* list(dset)
Iterate ==
    /\ ReaderOpen
    /\ out.op = "idle"
    /\ out' = Result("iter", <<>>, reader_iter(rd, file))
    /\ UNCHANGED <<file, wr, rd, werr, data, pending, snap, sess, recl, nsess, nrec, damage, wcall, pc, mw4s>>

\* dset.close() of a reader
CloseReader ==
    /\ rd.kind = "reader"
    /\ out.op = "idle"
    /\ rd' = IF runonce_skips(rd) THEN rd
             ELSE [rd EXCEPT !.closed = TRUE, !.fobj = "closed"]
    /\ recl' = [recl EXCEPT !.r = rd.closed]
    /\ UNCHANGED <<file, wr, werr, out, data, pending, snap, sess, nsess, nrec, damage, wcall, pc, mw4s>>

\* Close.__del__ of a closed reader: the object is gone
DelReader ==
    /\ rd.kind = "reader"
    /\ rd.closed
    /\ out.op = "idle"
    /\ rd' = NoReader
    /\ recl' = [recl EXCEPT !.r = FALSE]
    /\ UNCHANGED <<file, wr, werr, out, data, pending, snap, sess, nsess, nrec, damage, wcall, pc, mw4s>>

\* the caller takes the outcome of the last call
Return ==
    /\ out.op # "idle"
    /\ out' = Idle
    /\ UNCHANGED <<file, wr, rd, werr, data, pending, snap, sess, recl, nsess, nrec, damage, wcall, pc, mw4s>>

WriterNext ==
    \/ \E bl \in 1..MaxBlockLength, c \in COMPRESSER_TABLE : OpenWriter(bl, c, S_msgpack)
    \/ OpenAppender
    \/ DoAppend
    \/ \E n \in 0..(MaxLen - nrec) : DoExtend(n)
    \/ Abandon
    \/ CloseWriter
    \/ DelWriter

Next ==
    \/ WriterNext
    \/ OpenReader
    \/ Iterate
    \/ CloseReader
    \/ DelReader
    \/ Return

Spec == Init /\ [][Next]_vars

(***************************************************************************)
(* Claims about writing, appending and closing, under Spec.                *)
(***************************************************************************)
\* the latest session is an Appender session that was abandoned
AbandonedAppend == sess.kind = "appender" /\ sess.end = "abandoned"

\* a Reader call returned the records recs
Yields(recs) == out.err = E_none /\ out.v = recs

\* C1: Round-trip.  When a Writer session alone made the file (extend and
\* append calls, then close), opening a Reader succeeds and iterating it
\* yields exactly the records handed over, in their order.
C1_RoundTrip ==
    (nsess = 0 /\ sess.kind = "writer" /\ sess.end = "closed")
        => /\ out.op = "open" => out.err = E_none
           /\ out.op = "iter" => Yields(RecsFrom(0, nrec))

\* reached: a Writer file of more records than a block holds was iterated
C1_Witness ==
    /\ nsess = 0 /\ sess.kind = "writer" /\ sess.end = "closed"
    /\ out.op = "iter" /\ Len(out.v) = MaxLen
    /\ rd.block_length < MaxLen

\* C2: Append composition.  After a Writer session and one or more Appender
\* sessions, each ended by close(), a Reader yields the concatenation of
\* all the parts: every record handed over, in order.
C2_AppendComposition ==
    (nsess >= 1 /\ sess.clean /\ sess.end = "closed")
        => /\ out.op = "open" => out.err = E_none
           /\ out.op = "iter" => Yields(RecsFrom(0, nrec)) /\ data = RecsFrom(0, nrec)

\* reached: two Appender sessions, the last one adding records, were read
C2_Witness ==
    /\ nsess = MaxSessions /\ sess.clean /\ sess.end = "closed"
    /\ sess.n > 0 /\ sess.n < nrec
    /\ out.op = "iter" /\ Len(out.v) = MaxLen

\* C3: An abandoned Appender session keeps the old data.  Whatever the
\* session appended, blocks it flushed included, a Reader opened after it
\* yields exactly the records the dataset held before the session.
C3_AbandonedKeepsOld ==
    AbandonedAppend
        => /\ out.op = "open" => out.err = E_none
           /\ out.op = "iter" => Yields(data)

\* reached: the abandoned session had flushed a block, and the file was read
C3_Witness ==
    /\ AbandonedAppend /\ file # snap /\ wr.kind = "none"
    /\ out.op = "iter" /\ out.v # <<>>

\* C4: Crash before flush.  When the records an abandoned Appender session
\* added never filled a block, no byte of the file was modified, and a
\* Reader yields the data from before the session.
C4_CrashBeforeFlush ==
    (AbandonedAppend /\ ~sess.filled)
        => /\ file = snap
           /\ out.op = "iter" => Yields(data)

\* reached: such a session had added a record, and the file was read
C4_Witness ==
    /\ AbandonedAppend /\ ~sess.filled /\ sess.n > 0
    /\ out.op = "iter" /\ out.v # <<>>

\* where the index of file f ends, by f's own header
IndexEnd(f) ==
    With(HeaderFields(read_header(f).header), LAMBDA hf :
        hf.index_start + CHECKSUM_LEN + hf.index_size)

\* the bytes of f below offset e
Below(f, e) == <<f.head, SubSeq(f.body, 1, e - HEADER_SPACE)>>

\* C5 as stated: once an abandoned Appender session has flushed a block,
\* the old index is overwritten and opening a Reader fails with an index
\* checksum mismatch.
C5_Original ==
    (AbandonedAppend /\ file # snap /\ out.op = "open") => out.err = E_index

\* C5 as amended: the blocks an abandoned Appender session flushed lie
\* after the old index; the old header, blocks and index are unchanged,
\* and opening a Reader succeeds.
C5_Amended ==
    (AbandonedAppend /\ file # snap)
        => /\ Below(file, IndexEnd(snap)) = Below(snap, IndexEnd(snap))
           /\ Len(file.body) > IndexEnd(snap) - HEADER_SPACE
           /\ out.op = "open" => out.err = E_none

\* reached: a Reader was opened after such a session
C5_Witness == AbandonedAppend /\ file # snap /\ out.op = "open"

\* C9: Idempotent close.  A close() of a Writer, Appender or Reader that
\* was closed before raises nothing and changes neither the file nor the
\* object.
C9_IdempotentClose ==
    [][/\ (wr.closed /\ recl'.w) => (werr' = E_none /\ file' = file /\ wr' = wr)
       /\ (rd.closed /\ recl'.r) => (rd' = rd /\ file' = file)]_vars

\* reached: an Appender that wrote records was closed a second time
C9_Witness == recl.w /\ wr.kind = "appender" /\ sess.n > 0 /\ sess.end = "closed"

(***************************************************************************)
(* Random access, under SpecGet: the sessions of Spec and get_idx calls.   *)
(***************************************************************************)
\* dset.get_idx(i), also dset[i]
GetIdx(i) ==
    /\ ReaderOpen
    /\ out.op = "idle"
    /\ \E r \in {get_idx(rd, file, i)} :
           /\ rd' = r.self
           /\ out' = Result("get", <<i>>, r)
    /\ UNCHANGED <<file, wr, werr, data, pending, snap, sess, recl, nsess, nrec, damage, wcall, pc, mw4s>>

NextGet ==
    \/ WriterNext
    \/ OpenReader
    \/ \E i \in (0 - MaxLen - 1)..MaxLen : GetIdx(i)
    \/ CloseReader
    \/ DelReader
    \/ Return

SpecGet == Init /\ [][NextGet]_vars

\* s[i] of a Python sequence s, for an i in range
PyItem(s, i) == s[(IF i < 0 THEN Len(s) + i ELSE i) + 1]

\* C6: Random access.  On a dataset holding data of length L, get_idx(i)
\* returns data[i] for -L <= i <= L-1, negative i counting from the end,
\* and raises IndexError for every other i, whatever calls came before.
C6_RandomAccess ==
    out.op = "get"
        => LET i == out.args[1]
           IN  IF 0 - Len(data) <= i /\ i <= Len(data) - 1
               THEN Yields(<<PyItem(data, i)>>)
               ELSE out.err = E_range

\* reached: a negative index was served from a block other than the first,
\* by a reader of a dataset of several blocks
C6_Witness ==
    /\ out.op = "get" /\ out.args[1] < 0 /\ out.err = E_none
    /\ rd.cur_block_idx > 0 /\ Len(data) = MaxLen

(***************************************************************************)
(* Slices and index lists, read from a dataset that one Writer session     *)
(* made.                                                                   *)
(***************************************************************************)
WriteOnce ==
    \/ \E bl \in 1..MaxBlockLength, c \in COMPRESSER_TABLE : OpenWriter(bl, c, S_msgpack)
    \/ \E n \in 0..(MaxLen - nrec) : DoExtend(n)
    \/ CloseWriter
    \/ DelWriter

\* the index lists of the calls
IdxSeqs == UNION {[1..k -> (0 - MaxLen)..(MaxLen - 1)] : k \in 0..MaxIdxs}

\* a faulty variant of GetIdxs: the block of the last index fetched is left
\* in the reader's cache
GetIdxs_shared(ns) ==
    /\ ReaderOpen
    /\ out.op = "idle"
    /\ \E r \in {get_idxs(rd, file, ns)} :
           /\ out' = Result("idxs", ns, r)
           /\ rd' = IF r.err = E_none /\ ns # <<>>
                    THEN With(fetch(rd, file, PyItem([k \in 1..rd.length |-> k - 1], ns[Len(ns)]),
                                    -1, <<>>), LAMBDA ft :
                            [rd EXCEPT !.cur_block_idx = ft.cbi, !.cur_block = ft.cb])
                    ELSE rd
    /\ UNCHANGED <<file, wr, werr, data, pending, snap, sess, recl, nsess, nrec, damage, wcall, pc, mw4s>>

\* list(dset.get_idxs(ns)), also dset[ns]
GetIdxs(ns) ==
    /\ ReaderOpen
    /\ out.op = "idle"
    /\ out' = Result("idxs", ns, get_idxs(rd, file, ns))
    /\ UNCHANGED <<file, wr, rd, werr, data, pending, snap, sess, recl, nsess, nrec, damage, wcall, pc, mw4s>>

NextIdxs ==
    \/ WriteOnce
    \/ OpenReader
    \/ \E ns \in IdxSeqs : GetIdxs(ns)
    \/ CloseReader
    \/ DelReader
    \/ Return

SpecIdxs == Init /\ [][NextIdxs]_vars

\* i is an index of the Python sequence s
ValidIdx(s, i) == 0 - Len(s) <= i /\ i <= Len(s) - 1

\* C8: Multi-index fetch.  For a list idxs of valid indices, in any order,
\* with repeats and negative indices, get_idxs(idxs) yields data[i] for
\* each i of idxs, one value per index, in the order of idxs.
C8_MultiIndex ==
    (out.op = "idxs" /\ \A k \in 1..Len(out.args) : ValidIdx(data, out.args[k]))
        => Yields([k \in 1..Len(out.args) |-> PyItem(data, out.args[k])])

\* reached: an unsorted list with a negative index, its items in two blocks
C8_Witness ==
    /\ out.op = "idxs" /\ Len(out.args) = MaxIdxs /\ out.err = E_none
    /\ out.args[1] = Len(data) - 1 /\ out.args[2] = 0 - Len(data)
    /\ Len(data) = MaxLen /\ rd.block_length < MaxLen

\* the optional bounds and steps of the calls: <<>> is None, <<x>> is x
OptBounds == {<<>>} \cup {<<x>> : x \in (0 - MaxLen - 1)..(MaxLen + 1)}

OptSteps == {<<>>} \cup {<<x>> : x \in ((0 - MaxLen - 1)..(MaxLen + 1)) \ {0}}

\* list(dset.get_slice(start, stop, step)), also dset[start:stop:step]
GetSlice(start, stop, step) ==
    /\ ReaderOpen
    /\ out.op = "idle"
    /\ out' = Result("slice", <<start, stop, step>>, get_slice(rd, file, start, stop, step))
    /\ UNCHANGED <<file, wr, rd, werr, data, pending, snap, sess, recl, nsess, nrec, damage, wcall, pc, mw4s>>

NextSlice ==
    \/ WriteOnce
    \/ OpenReader
    \/ \E start \in OptBounds, stop \in OptBounds, step \in OptSteps :
           GetSlice(start, stop, step)
    \/ CloseReader
    \/ DelReader
    \/ Return

SpecSlice == Init /\ [][NextSlice]_vars

\* s[k] for k = n, n + step, ... short of stop: the items of a Python slice
RECURSIVE PyRangeItems(_, _, _, _)
PyRangeItems(s, n, stop, step) ==
    IF (step > 0 /\ n >= stop) \/ (step < 0 /\ n <= stop) THEN <<>>
    ELSE <<s[n + 1]>> \o PyRangeItems(s, n + step, stop, step)

\* s[start:stop:step] under the slicing rules of Python sequences
PySlice(s, start, stop, step) ==
    LET ind == slice_indices(start, stop, step, Len(s))
    IN  PyRangeItems(s, ind[1], ind[2], ind[3])

\* C7 as stated: for every start, stop and step # 0, get_slice(start, stop,
\* step) yields exactly data[start:stop:step].
C7_Slicing ==
    out.op = "slice" => Yields(PySlice(data, out.args[1], out.args[2], out.args[3]))

\* the slices get_slice takes for empty: fewer than one whole step lies
\* between start and stop
ShortOfOneStep(s, start, stop, step) ==
    LET ind == slice_indices(start, stop, step, Len(s))
    IN  FloorDiv(ind[2] - ind[1], ind[3]) <= 0

\* C7, what the code does: get_slice never raises; it yields the slice
\* unless fewer than one whole step lies between start and stop, and then
\* it yields nothing, though the slice may hold data[start].
C7_SlicingButShort ==
    out.op = "slice"
        => IF ShortOfOneStep(data, out.args[1], out.args[2], out.args[3])
           THEN Yields(<<>>)
           ELSE Yields(PySlice(data, out.args[1], out.args[2], out.args[3]))

\* reached: get_slice(0, 1, 2) yielded nothing from a dataset that is not
\* empty
C7_Witness ==
    /\ out.op = "slice" /\ out.args = <<(<<0>>), (<<1>>), (<<2>>)>>
    /\ Yields(<<>>) /\ data # <<>>

(***************************************************************************)
(* Corruption, under SpecCorrupt: one byte of a closed dataset changes     *)
(* behind the program's back; a Reader is opened afterwards.               *)
(***************************************************************************)
\* the changes of a byte tried, added modulo 256: +1, the top bit, -1
Flips == {1, 128, 255}

\* the units of a readable file f that a checksum guards, as
\* <<unit, n, offset of the first byte, size>>: the header bytes, the
\* compressed index, the compressed payload of each block n
Units(f) ==
    With(HeaderFields(read_header(f).header), LAMBDA hf :
    With(DatasetReader_init(f).rd.index, LAMBDA index :
        {<<"header", -1, PRE_HEADER_LEN + CHECKSUM_LEN, read_preheader(f).hdr_size>>,
         <<"index", -1, hf.index_start + CHECKSUM_LEN, hf.index_size>>}
        \cup {<<"block", n, index[n + 1][1] + CHECKSUM_LEN, index[n + 1][2]>> :
                  n \in 0..(Len(index) - 1)}))

\* the file is a closed dataset, intact, that no session holds
ClosedIntact ==
    NoHandle /\ damage = NoDamage /\ sess.end = "closed" /\ sess.kind # "none"

\* byte k of unit u of the file changes by d
Corrupt(u, k, d) ==
    /\ ClosedIntact
    /\ k < u[4]
    /\ file' = Write(file, u[3] + k, <<(Read(file, u[3] + k, 1)[1] + d) % 256>>)
    /\ damage' = [unit |-> u[1], n |-> u[2]]
    /\ UNCHANGED <<wr, rd, werr, out, data, pending, snap, sess, recl, nsess, nrec,
                   wcall, pc, mw4s>>

NextCorrupt ==
    \/ WriteOnce
    \/ \E u \in (IF ClosedIntact THEN Units(file) ELSE {}) :
           \E k \in 0..(u[4] - 1), d \in Flips : Corrupt(u, k, d)
    \/ OpenReader
    \/ \E i \in (0 - MaxLen - 1)..MaxLen : GetIdx(i)
    \/ Iterate
    \/ CloseReader
    \/ DelReader
    \/ Return

SpecCorrupt == Init /\ [][NextCorrupt]_vars

\* C10: Corruption detection.  After one byte of the header bytes, of the
\* compressed index or of the compressed payload of a block was changed,
\* opening a Reader fails with the header or index checksum mismatch, and
\* loading the block (in get_idx, in iteration) fails with the block
\* checksum mismatch; no call returns records other than those written.
C10_CorruptionDetected ==
    /\ (damage.unit = "header" /\ out.op = "open") => out.err = E_header
    /\ (damage.unit = "index" /\ out.op = "open") => out.err = E_index
    /\ (damage.unit = "block" /\ out.op = "iter")
           => (out.err = E_block /\ out.blk = damage.n)
    /\ (damage.unit = "block" /\ out.op = "get" /\ ValidIdx(data, out.args[1]))
           => LET i == out.args[1]
                  n == IF i < 0 THEN Len(data) + i ELSE i
              IN  IF n \div rd.block_length = damage.n
                  THEN out.err = E_block /\ out.blk = damage.n
                  ELSE Yields(<<PyItem(data, i)>>)
    /\ (damage.unit # "none" /\ out.op = "iter" /\ out.err = E_none) => out.v = data

\* reached: get_idx ran into the changed block, which is not the first one
C10_Witness ==
    /\ damage.unit = "block" /\ damage.n > 0
    /\ out.op = "get" /\ out.err = E_block

(***************************************************************************)
(* pypb.dset_sort: sorting a dataset by an integer key into a second       *)
(* dataset, a pass of cache_blocks * block_length records at a time.       *)
(***************************************************************************)
\* cache_blocks is drawn from 1..MaxCacheBlocks
MaxCacheBlocks == 2

\* dset_sort.self_key, on an integer record
self_key(x) == x.n

\* the keys array after the loop over enumerate(din); len(din) is the
\* header's length, and an object past it is an IndexError the loop turns
\* into a ValueError
E_getkey == "ValueError: Error getting key for object"

dset_keys(din, f) ==
    With(reader_iter(din, f), LAMBDA it :
        IF it.err # E_none THEN [err |-> it.err, keys |-> <<>>]
        ELSE IF Len(it.v) > din.length \/ \E k \in 1..Len(it.v) : it.v[k].t # "int"
        THEN [err |-> E_getkey, keys |-> <<>>]
        ELSE [err |-> E_none,
              keys |-> [k \in 1..din.length |->
                            IF k <= Len(it.v) THEN self_key(it.v[k]) ELSE 0]])

\* np.argsort(keys): the orders (of positions counted from 0) that sort the
\* keys; the default sort is not stable, so equal keys may come in any order
argsort(keys) ==
    {p \in [1..Len(keys) -> 0..(Len(keys) - 1)] :
        /\ \A a, b \in 1..Len(keys) : p[a] = p[b] => a = b
        /\ \A a \in 1..(Len(keys) - 1) : keys[p[a] + 1] <= keys[p[a + 1] + 1]}

\* idxs of one pass: the pairs (srci, dsti), sorted by srci
RECURSIVE sort_by_srci(_)
sort_by_srci(pairs) ==
    IF pairs = {} THEN <<>>
    ELSE LET first == CHOOSE x \in pairs : \A y \in pairs : x[1] <= y[1]
         IN  <<first>> \o sort_by_srci(pairs \ {first})

\* a faulty variant of pass_idxs: a pass takes every position from start on
pass_idxs_all(key_order, start, cache_size) ==
    sort_by_srci({<<key_order[k], k - start - 1>> : k \in (start + 1)..Len(key_order)})

pass_idxs(key_order, start, cache_size) ==
    LET stop == IF start + cache_size < Len(key_order) THEN start + cache_size
                ELSE Len(key_order)
    IN  sort_by_srci({<<key_order[k], k - start - 1>> : k \in (start + 1)..stop})

\* the loop that fills the cache of one pass: cache[dsti] = cur_block[j],
\* an item of the block as _load_block returns it
RECURSIVE fill_cache(_, _, _, _, _, _, _)
fill_cache(din, f, idxs, k, cbi, cb, cache) ==
    IF k > Len(idxs) THEN [err |-> E_none, cache |-> cache, cbi |-> cbi, cb |-> cb]
    ELSE LET i == idxs[k][1] \div din.block_length
             j == idxs[k][1] % din.block_length
         IN  With(IF cbi # i THEN load_block(din, f, i)
                  ELSE [err |-> E_none, n |-> i, block |-> cb], LAMBDA lb :
                IF lb.err # E_none
                THEN [err |-> lb.err, cache |-> cache, cbi |-> cbi, cb |-> cb]
                ELSE IF j >= Len(lb.block)
                THEN [err |-> E_range, cache |-> cache, cbi |-> cbi, cb |-> cb]
                ELSE fill_cache(din, f, idxs, k + 1, i, lb.block,
                                [cache EXCEPT ![idxs[k][2] + 1] = lb.block[j + 1]]))

\* the passes of dset_sort from position start on; dout, fo are the output
\* writer and its file.  extend serializes what it is handed: here the
\* items of the cache, which are byte strings
RECURSIVE sort_passes(_, _, _, _, _, _, _, _, _)
sort_passes(din, f, dout, fo, key_order, start, cache_size, cbi, cb) ==
    IF start >= din.length THEN [err |-> E_none, self |-> dout, f |-> fo]
    ELSE With(pass_idxs(key_order, start, cache_size), LAMBDA idxs :
         With(fill_cache(din, f, idxs, 1, cbi, cb, [k \in 1..Len(idxs) |-> <<>>]),
              LAMBDA fc :
            IF fc.err # E_none THEN [err |-> fc.err, self |-> dout, f |-> fo]
            ELSE With(writer_extend(dout, fo, [k \in 1..Len(idxs) |-> BinV(fc.cache[k])]),
                      LAMBDA ex :
                    IF ex.err # E_none THEN ex
                    ELSE sort_passes(din, f, ex.self, ex.f, key_order,
                                     start + cache_size, cache_size, fc.cbi, fc.cb))))

\* dset_sort(din, dout, self_key, cache_blocks) once argsort gave key_order
dset_sort(din, f, dout, fo, key_order, cache_blocks) ==
    IF din.block_length = 0 THEN [err |-> E_zerodiv, self |-> dout, f |-> fo]
    ELSE sort_passes(din, f, dout, fo, key_order, 0,
                     cache_blocks * din.block_length, -1, <<>>)

\* test_dset_sort: the output dataset is opened with the input's block
\* length, sorted into, closed, and read back with list(dset)
sort_and_read(din, f, key_order, cache_blocks) ==
    With(DatasetWriter_init(din.block_length, S_lz4, S_msgpack), LAMBDA w :
    With(dset_sort(din, f, w.self, w.f, key_order, cache_blocks), LAMBDA ds :
        IF ds.err # E_none THEN [err |-> ds.err, blk |-> -1, v |-> <<>>]
        ELSE With(writer_close(ds.self, ds.f), LAMBDA cl :
             IF cl.err # E_none THEN [err |-> cl.err, blk |-> -1, v |-> <<>>]
             ELSE With(DatasetReader_init(cl.f), LAMBDA r :
                  IF r.err # E_none THEN [err |-> r.err, blk |-> -1, v |-> <<>>]
                  ELSE reader_iter(r.rd, cl.f)))))

\* dset_sort on the open reader, and the read of its output
DsetSort(cache_blocks) ==
    /\ ReaderOpen
    /\ out.op = "idle"
    /\ \E ks \in {dset_keys(rd, file)} :
           /\ ks.err = E_none
           /\ \E key_order \in argsort(ks.keys) :
                  out' = Result("sort", <<cache_blocks>>,
                                sort_and_read(rd, file, key_order, cache_blocks))
    /\ UNCHANGED <<file, wr, rd, werr, data, pending, snap, sess, recl, nsess, nrec, damage, wcall, pc, mw4s>>

NextSort ==
    \/ WriteOnce
    \/ OpenReader
    \/ \E cb \in 1..MaxCacheBlocks : DsetSort(cb)
    \/ CloseReader
    \/ DelReader
    \/ Return

SpecSort == Init /\ [][NextSort]_vars

\* sorted(s, key=self_key) of integer records: insertion, equal keys in
\* their order of arrival
RECURSIVE PySorted(_)
PySorted(s) ==
    IF s = <<>> THEN <<>>
    ELSE LET rest == PySorted(SubSeq(s, 1, Len(s) - 1))
             x == s[Len(s)]
             k == Cardinality({a \in 1..Len(rest) : self_key(rest[a]) <= self_key(x)})
         IN  SubSeq(rest, 1, k) \o <<x>> \o SubSeq(rest, k + 1, Len(rest))

\* C11: External sort result.  After dset_sort(reader, writer, key_fn,
\* cache_blocks) and the close of the writer, reading the output yields
\* exactly sorted(data, key=key_fn), the records themselves as the Reader
\* returns them from the input, for every cache_blocks >= 1.
C11_SortResult ==
    out.op = "sort" => Yields(PySorted(RecsFrom(0, nrec)))

\* what the output holds instead: the serialized bytes of each record, in
\* sorted order, as byte-string records
C11_SortedPacked ==
    out.op = "sort" =>
        Yields([k \in 1..nrec |-> BinV(serialize(PySorted(RecsFrom(0, nrec))[k]))])

\* reached: a dataset of several blocks, out of order, was sorted with a
\* cache smaller than its block count
C11_Witness ==
    /\ out.op = "sort" /\ out.err = E_none
    /\ nrec = MaxLen /\ Len(rd.index) > out.args[1]
    /\ RecsFrom(0, nrec) # PySorted(RecsFrom(0, nrec))
    /\ Len(out.v) = nrec /\ out.v # PySorted(RecsFrom(0, nrec))

(***************************************************************************)
(* Claims about the closed file, under Spec.                               *)
(***************************************************************************)
\* the file was made by a Writer session that was closed without a record
EmptyWritten ==
    nsess = 0 /\ sess.kind = "writer" /\ sess.end = "closed" /\ nrec = 0

\* C12: Empty dataset.  A Writer closed without any append or extend call
\* leaves a file that a Reader opens without error, with length 0 and an
\* empty index, and whose iteration yields nothing.
C12_EmptyDataset ==
    EmptyWritten =>
        /\ out.op = "open" => out.err = E_none
        /\ ReaderOpen => rd.length = 0 /\ rd.index = <<>>
        /\ out.op = "iter" => Yields(<<>>)

\* reached: the empty dataset was opened and iterated
C12_Witness ==
    EmptyWritten /\ ReaderOpen /\ out.op = "iter" /\ out.err = E_none


\* every session of the file so far was ended by close()
ClosedClean == sess.kind # "none" /\ sess.end = "closed" /\ sess.clean

\* the number of records in each block the index of reader r names
BlockLens(r, f) ==
    [i \in 1..Len(r.index) |-> Len(load_block(r, f, i - 1).block)]

RECURSIVE SumSeq(_)
SumSeq(s) == IF s = <<>> THEN 0 ELSE s[1] + SumSeq(Tail(s))

\* C13: Closed-file length invariant.  In every file made by a Writer
\* session and any number of Appender sessions, each ended by close(), the
\* header's length is the total number of records in the indexed blocks,
\* every indexed block but the last holds exactly block_length records and
\* the last holds between 1 and block_length.
C13_LengthInvariant ==
    ClosedClean =>
        With(DatasetReader_init(file), LAMBDA r :
            /\ r.err = E_none
            /\ With(BlockLens(r.rd, file), LAMBDA lens :
                   /\ r.rd.length = SumSeq(lens)
                   /\ \A i \in 1..Len(lens) :
                          IF i < Len(lens) THEN lens[i] = r.rd.block_length
                          ELSE 1 <= lens[i] /\ lens[i] <= r.rd.block_length))

\* reached: an Appender session took up a partial block, filled it and
\* left a partial last block behind at its close
C13_Witness ==
    /\ ClosedClean /\ sess.kind = "appender" /\ wr.kind = "appender"
    /\ wr.block_length = 2 /\ sess.n = 2 /\ nrec = 3 /\ Len(wr.index) = 2


(***************************************************************************)
(* Opening: open() in every mode, with arguments and files of any kind.    *)
(* Besides the files the sessions leave, a file may come from elsewhere:   *)
(* one whose magic string or version differs, or whose header names a      *)
(* compression or a serializer the tables do not hold.                     *)
(***************************************************************************)
\* names that are in no table
S_gzip == <<103, 122, 105, 112>>
S_pickle == <<112, 105, 99, 107, 108, 101>>

ForeignKinds == {"magic", "version", "compression", "serializer"}

\* the header of a closed dataset f, written again with the given names
foreign_header(f, compression, serializer) ==
    With(read_header(f).header, LAMBDA header :
    With(HeaderFields(header), LAMBDA hf :
        write_header([NoWriter EXCEPT !.fobj = "open",
                                      !.block_length = hf.block_length,
                                      !.length = hf.length,
                                      !.compression = compression,
                                      !.serializer = serializer],
                     f, hf.index_start, hf.index_size,
                     MapGet(header, K_index_raw).v.n).f))

\* the closed dataset is replaced by a file that differs from it in one
\* respect; with cut, the file also ends after the header reservation, so
\* that neither the index nor a block can be read
Foreign(kind, cut) ==
    /\ ClosedIntact
    /\ \E g \in CASE kind = "magic" ->
                     {Write(file, k, <<(Read(file, k, 1)[1] + 1) % 256>>) : k \in {0, 11}}
                  [] kind = "version" ->
                     {Write(file, 12, LE(v, 2)) : v \in {VERSION - 1, VERSION + 1}}
                  [] kind = "compression" ->
                     {foreign_header(file, S_gzip, S_msgpack)}
                  [] OTHER ->
                     {foreign_header(file, HeaderFields(read_header(file).header).compression,
                                     S_pickle)} :
           file' = IF cut THEN [g EXCEPT !.body = <<>>] ELSE g
    /\ damage' = [unit |-> kind, n |-> -1]
    /\ UNCHANGED <<wr, rd, werr, out, data, pending, snap, sess, recl, nsess, nrec,
                   wcall, pc, mw4s>>

NextOpen ==
    \/ \E bl \in 0..MaxBlockLength, c \in COMPRESSER_TABLE \cup {S_gzip},
          s \in SERIALIZER_TABLE \cup {S_pickle} : OpenWriter(bl, c, s)
    \/ \E n \in 0..(MaxLen - nrec) : DoExtend(n)
    \/ CloseWriter
    \/ DelWriter
    \/ OpenAppender
    \/ \E kind \in ForeignKinds, cut \in BOOLEAN : Foreign(kind, cut)
    \/ OpenReader
    \/ Iterate
    \/ CloseReader
    \/ DelReader
    \/ Return

SpecOpen == Init /\ [][NextOpen]_vars

\* the exceptions of class IOError
IOErrors ==
    {E_nofile, E_magic, E_version, E_header, E_index, E_block, E_compression,
     E_serializer}

\* C14: Opening a path that does not exist, or an existing file of zero
\* bytes, in read mode or in append mode fails with the not-a-dataset-file
\* error (an IOError); no other kind of exception escapes and no Reader or
\* Appender is returned.
C14_MissingOrEmpty ==
    file \in {NoFile, EmptyFile} =>
        /\ out.op = "open" => out.err \in IOErrors /\ rd = NoReader
        /\ wcall.op = "a" => werr \in IOErrors /\ wr = NoWriter

\* what holds instead: a missing path fails with open()'s IOError, a file of
\* zero bytes with the struct.error of the pre-header's unpack, in both
\* modes, and no object is returned
C14_MissingOrEmptyAsIs ==
    file \in {NoFile, EmptyFile} =>
        LET e == IF file = NoFile THEN E_nofile ELSE E_struct
        IN  /\ out.op = "open" => out.err = e /\ rd = NoReader
            /\ wcall.op = "a" => werr = e /\ wr = NoWriter

\* reached: a file of zero bytes was opened in append mode and in read mode
C14_Witness ==
    /\ file = EmptyFile
    /\ wcall.op = "a" /\ werr = E_struct
    /\ out.op = "open" /\ out.err = E_struct

\* C15: open() in write mode rejects bad parameters at once: a block_length
\* below 1 fails with a ValueError, and so does an unknown compression or an
\* unknown serializer; no Writer is returned and no append is possible.
\* Valid parameters give a Writer.
C15_BadParameters ==
    wcall.op = "w" =>
        LET block_length == wcall.args[1]
            compression == wcall.args[2]
            serializer == wcall.args[3]
        IN  IF block_length < 1
            THEN werr = E_vblock /\ wr = NoWriter /\ ~WriterOpen
            ELSE IF compression \notin COMPRESSER_TABLE
            THEN werr = E_vcompression /\ wr = NoWriter /\ ~WriterOpen
            ELSE IF serializer \notin SERIALIZER_TABLE
            THEN werr = E_vserializer /\ wr = NoWriter /\ ~WriterOpen
            ELSE werr = E_none /\ wr.kind = "writer"

\* reached: an unknown serializer was rejected, the block length and the
\* compression being valid
C15_Witness ==
    /\ wcall.op = "w" /\ wr = NoWriter /\ werr = E_vserializer
    /\ wcall.args[1] >= 1 /\ wcall.args[2] \in COMPRESSER_TABLE

\* C16: Open validation.  Opening for reading or appending a file whose
\* magic string differs fails as not a dataset file; one whose version is
\* not the implemented one fails as an unsupported version; one whose header
\* names an unknown compression or serializer fails as an unsupported
\* format; each before the index or a block is read, so also when those
\* cannot be read.
C16_OpenValidation ==
    damage.unit \in ForeignKinds =>
        LET e == CASE damage.unit = "magic" -> E_magic
                   [] damage.unit = "version" -> E_version
                   [] damage.unit = "compression" -> E_compression
                   [] OTHER -> E_serializer
        IN  /\ out.op = "open" => out.err = e /\ rd = NoReader
            /\ wcall.op = "a" => werr = e /\ wr = NoWriter

\* reached: a file with records whose header names an unknown compression
\* and whose index is cut off was opened in both modes
C16_Witness ==
    /\ damage.unit = "compression" /\ nrec > 0 /\ file.body = <<>>
    /\ out.op = "open" /\ out.err = E_compression
    /\ wcall.op = "a" /\ werr = E_compression


\* C17: Fixed file parameters.  After any number of Appender sessions the
\* header's block_length, serializer and compression are those given when
\* the Writer created the file; the Appender itself works with them.
C17_FixedParameters ==
    With(read_header(file), LAMBDA h :
        /\ h.err = E_none =>
               With(HeaderFields(h.header), LAMBDA hf :
                   /\ hf.block_length = wcall.args[1]
                   /\ hf.compression = wcall.args[2]
                   /\ hf.serializer = wcall.args[3])
        /\ wr.kind = "appender" =>
               /\ wr.block_length = wcall.args[1]
               /\ wr.compression = wcall.args[2]
               /\ wr.serializer = wcall.args[3])

\* reached: a file created with zlib and blocks of two records, after
\* MaxSessions Appender sessions that were closed and wrote records
C17_Witness ==
    /\ ClosedClean /\ nsess = MaxSessions /\ sess.n > 0 /\ wr.kind = "none"
    /\ wcall.args = <<2, S_zlib, S_msgpack>>
    /\ read_header(file).err = E_none


\* the name the format description at the top of dset.py gives the third
\* header field
K_index_size_raw ==
    <<105, 110, 100, 101, 120, 95, 115, 105, 122, 101, 95, 114, 97, 119>>

\* the keys of a msgpack map
MapKeys(m) == {m.items[2 * k - 1].s : k \in 1..(Len(m.items) \div 2)}

\* close() has just written the file and the writer object is still there
JustClosed ==
    wr.kind # "none" /\ wr.closed /\ wr.fobj = "closed" /\ sess.end = "closed"

\* the header on disk locates the index of the writer and carries its
\* record count
HeaderLocates(hf) ==
    /\ hf.err = E_none
    /\ hf.length = wr.length
    /\ read_index(file, hf.index_start, hf.index_size, hf.compression)
           = [err |-> E_none, index |-> wr.index]
    /\ Read(file, hf.index_start + CHECKSUM_LEN + hf.index_size, 1) = <<>>
           \/ sess.clean = FALSE

\* C18: Header content.  The header map written by close() has exactly the
\* seven fields index_start, index_size, index_size_raw, serializer,
\* compression, block_length and length; index_start and index_size locate
\* the index just written and length is the writer's record count.
C18_HeaderContent ==
    JustClosed =>
        With(read_header(file), LAMBDA h :
            /\ h.err = E_none
            /\ Len(h.header.items) = 14
            /\ MapKeys(h.header) = {K_index_start, K_index_size, K_index_size_raw,
                                    K_serializer, K_compression, K_block_length, K_length}
            /\ HeaderLocates(HeaderFields(h.header)))

\* what holds instead: the third field is named index_raw
C18_HeaderContentAsIs ==
    JustClosed =>
        With(read_header(file), LAMBDA h :
            /\ h.err = E_none
            /\ Len(h.header.items) = 14
            /\ MapKeys(h.header) = {K_index_start, K_index_size, K_index_raw,
                                    K_serializer, K_compression, K_block_length, K_length}
            /\ MapGet(h.header, K_index_raw).v.n = Len(msgpack_packb(IndexV(wr.index)))
            /\ HeaderLocates(HeaderFields(h.header)))

\* reached: the close of an Appender session that wrote records
C18_Witness ==
    /\ JustClosed /\ wr.kind = "appender" /\ sess.n > 0 /\ Len(wr.index) > 1
    /\ K_index_size_raw \notin MapKeys(read_header(file).header)


(***************************************************************************)
(* extend against repeated append, from every open writer of Spec.         *)
(***************************************************************************)
\* for item in items[k:]: dset.append(item)
RECURSIVE append_each(_, _, _, _)
append_each(self, f, items, k) ==
    IF k > Len(items) THEN [err |-> E_none, self |-> self, f |-> f]
    ELSE With(writer_append(self, f, items[k]), LAMBDA ap :
            IF ap.err # E_none THEN ap
            ELSE append_each(ap.self, ap.f, items, k + 1))

\* the batches the caller can hand over next
Batches == {RecsFrom(nrec, n) : n \in 0..(MaxLen - nrec)}

\* C19: extend equals repeated append.  From any open writer and for any
\* batch, extend(records) leaves the writer in the same state as append(r)
\* for each r in order: same length, same index entries and block bytes in
\* the file, same current block in memory, also when the batch ends on a
\* block boundary.
C19_ExtendIsAppends ==
    WriterOpen =>
        \A items \in Batches :
            writer_extend(wr, file, items) = append_each(wr, file, items, 1)

\* C19 as the code has it: extend and the appends hand over the same
\* records and agree on the length; they leave the same state unless the
\* appends end with a full current block, which append keeps in memory until
\* the next call while extend has flushed it; close() makes the same file
\* of both.
C19_ExtendIsAppendsFlushed ==
    WriterOpen =>
        \A items \in Batches :
            With(writer_extend(wr, file, items), LAMBDA ex :
            With(append_each(wr, file, items, 1), LAMBDA ap :
                /\ ex.err = E_none /\ ap.err = E_none
                /\ ex.self.length = ap.self.length
                /\ IF Len(ap.self.cur_block) = ap.self.block_length
                   THEN ex = flush(ap.self, ap.f, FALSE)
                   ELSE ex = ap
                /\ writer_close(ex.self, ex.f) = writer_close(ap.self, ap.f)))

\* reached: an open writer that extend left at a block boundary, its block
\* flushed, and that can take further batches
C19_Witness ==
    /\ WriterOpen /\ sess.n > 0 /\ wr.cur_block = <<>> /\ Len(wr.index) > 0
    /\ nrec < MaxLen
    /\ \E items \in Batches :
           writer_extend(wr, file, items) # append_each(wr, file, items, 1)


(***************************************************************************)
(* close() statement by statement: _flush(force=True), _write_index(),     *)
(* _write_header(...), fobj.close().  runonce has set _closed before the   *)
(* first of them runs.                                                     *)
(***************************************************************************)
\* the outcome r of a statement of close(): the next position, or the
\* exception that ends the call
CloseStep(r, at, locals) ==
    /\ wr' = [r.self EXCEPT !.closed = TRUE]
    /\ file' = r.f
    /\ werr' = r.err
    /\ pc' = IF r.err = E_none
             THEN [at |-> at, index_start |-> locals[1], index_size |-> locals[2],
                   index_size_raw |-> locals[3]]
             ELSE NotClosing
    /\ wcall' = [wcall EXCEPT !.op = ""]
    /\ UNCHANGED <<rd, out, data, pending, snap, sess, recl, nsess, nrec, damage, mw4s>>

\* self._flush(force=True)
CloseFlush ==
    /\ wr.kind # "none" /\ ~runonce_skips(wr) /\ wr.fobj = "open"
    /\ pc.at = "idle"
    /\ \E r \in {flush(wr, file, TRUE)} : CloseStep(r, "flushed", <<0, 0, 0>>)

\* index_start, index_size, index_size_raw = self._write_index()
CloseIndex ==
    /\ pc.at = "flushed"
    /\ \E r \in {write_index(wr, file)} :
           CloseStep(r, "indexed", <<r.index_start, r.index_size, r.index_size_raw>>)

\* self._write_header(index_start, index_size, index_size_raw)
CloseHeader ==
    /\ pc.at = "indexed"
    /\ \E r \in {write_header(wr, file, pc.index_start, pc.index_size, pc.index_size_raw)} :
           CloseStep(r, "headed", <<pc.index_start, pc.index_size, pc.index_size_raw>>)

\* self.fobj.close(), and the return of close()
CloseRelease ==
    /\ pc.at = "headed"
    /\ wr' = [wr EXCEPT !.fobj = "closed"]
    /\ pc' = NotClosing
    /\ data' = data \o pending
    /\ pending' = <<>>
    /\ sess' = [sess EXCEPT !.end = "closed"]
    /\ recl' = [recl EXCEPT !.w = FALSE]
    /\ UNCHANGED <<file, rd, werr, out, snap, nsess, nrec, damage, wcall, mw4s>>

NextClose ==
    \/ \E bl \in 1..MaxBlockLength, c \in COMPRESSER_TABLE : OpenWriter(bl, c, S_msgpack)
    \/ OpenAppender
    \/ DoAppend
    \/ \E n \in 0..(MaxLen - nrec) : DoExtend(n)
    \/ CloseFlush
    \/ CloseIndex
    \/ CloseHeader
    \/ CloseRelease
    \/ DelWriter
    \/ OpenReader
    \/ Iterate
    \/ CloseReader
    \/ DelReader
    \/ Return

SpecClose == Init /\ [][NextClose]_vars

\* the header reservation of file f as a reader finds it
HeaderOnDisk(f) == <<f.hsize, f.head>>

\* a step of close() from position a to position b
Moves(a, b) == pc.at = a /\ pc'.at = b

\* what a step may do: close() goes through its four statements in order;
\* the first writes the current block and nothing else, the second writes
\* the index at the position after the last block, the third writes the
\* header at offset 0 and nothing else, the fourth writes nothing and
\* releases the file; and as long as the header statement of a session has
\* not run, the header on disk is the one the session found
CloseOrderStep ==
    /\ pc'.at # pc.at =>
           \/ Moves("idle", "flushed") \/ Moves("flushed", "indexed")
           \/ Moves("indexed", "headed") \/ Moves("headed", "idle")
    /\ Moves("idle", "flushed") =>
           /\ wr'.cur_block = <<>> /\ wr'.fobj = "open"
           /\ wr.cur_block # <<>> =>
                  /\ Len(wr'.index) = Len(wr.index) + 1
                  /\ read_block(file', wr'.index, Len(wr.index), wr.compression)
                         = [err |-> E_none, n |-> Len(wr.index),
                            block_raw |-> msgpack_packb(BlockV(wr.cur_block))]
           /\ wr.cur_block = <<>> => file' = file /\ wr'.index = wr.index
           /\ HeaderOnDisk(file') = HeaderOnDisk(file)
    /\ Moves("flushed", "indexed") =>
           /\ pc'.index_start = wr.pos /\ wr'.fobj = "open"
           /\ \A i \in 1..Len(wr.index) :
                  pc'.index_start >= wr.index[i][1] + CHECKSUM_LEN + wr.index[i][2]
           /\ read_index(file', pc'.index_start, pc'.index_size, wr.compression)
                  = [err |-> E_none, index |-> wr.index]
           /\ HeaderOnDisk(file') = HeaderOnDisk(file)
    /\ Moves("indexed", "headed") =>
           /\ file'.body = file.body /\ wr'.fobj = "open"
           /\ HeaderOnDisk(file') # HeaderOnDisk(file)
           /\ With(HeaderFields(read_header(file').header), LAMBDA hf :
                  /\ hf.err = E_none
                  /\ hf.index_start = pc.index_start /\ hf.index_size = pc.index_size
                  /\ hf.length = wr.length)
    /\ Moves("headed", "idle") => file' = file /\ wr'.fobj = "closed"
    /\ (wr.kind # "none" /\ wr.fobj = "open" /\ pc.at # "headed")
           => HeaderOnDisk(file) = HeaderOnDisk(snap)

\* C20: Order of writes in close().  close() flushes the current block,
\* then writes the index after the last block, then writes the header at
\* offset 0, then releases the file handle; the header is the last thing
\* written, so at every earlier point of a session the header on disk is the
\* one from before the session, or the placeholder of a new file.
C20_CloseOrder == [][CloseOrderStep]_vars

\* reached: an Appender session with a partial block in memory has written
\* its block and its index, and the header on disk is still the old one
C20_Witness ==
    /\ pc.at = "indexed" /\ wr.kind = "appender" /\ sess.n > 0
    /\ Len(wr.index) > 1
    /\ read_header(file) = read_header(snap) /\ read_header(file).err = E_none


(***************************************************************************)
(* Claims about _flush and about the Appender's start, under Spec.         *)
(***************************************************************************)
\* the number of records in each block the writer's index names
WriterBlockLens ==
    [i \in 1..Len(wr.index) |->
        Len(unpack_block(read_block(file, wr.index, i - 1, wr.compression).block_raw).block)]

\* C21: No empty blocks.  A forced flush of an empty current block writes
\* no byte and appends no index entry, so that after any sequence of append,
\* extend and close calls in any number of sessions no index entry, of the
\* writer or of the file once no writer is open on it, describes a block of
\* zero records.
C21_NoEmptyBlocks ==
    /\ (WriterOpen /\ wr.cur_block = <<>>) =>
           flush(wr, file, TRUE) = [err |-> E_none, self |-> wr, f |-> file]
    /\ wr.kind # "none" => \A i \in 1..Len(wr.index) : WriterBlockLens[i] >= 1
    /\ ~WriterOpen =>
           With(DatasetReader_init(file), LAMBDA r :
               r.err = E_none =>
                   With(BlockLens(r.rd, file), LAMBDA lens :
                       \A i \in 1..Len(lens) : lens[i] >= 1))

\* reached: an Appender session that found a full last block and was handed
\* nothing was closed, its forced flush finding an empty current block
C21_Witness ==
    /\ JustClosed /\ wr.kind = "appender" /\ sess.n = 0
    /\ wr.length > 0 /\ wr.length % wr.block_length = 0
    /\ Len(wr.index) * wr.block_length = wr.length


\* C22: Flush guard.  _flush without force on a current block that does not
\* hold block_length records is rejected with an error and leaves the
\* current block, the index and the file as they were; append and extend
\* call the unforced flush only on a block of exactly block_length records,
\* so that the error never comes out of them.
C22_FlushGuard ==
    /\ (WriterOpen /\ Len(wr.cur_block) # wr.block_length) =>
           flush(wr, file, FALSE) = [err |-> E_unfilled, self |-> wr, f |-> file]
    /\ WriterOpen =>
           /\ Len(wr.cur_block) <= wr.block_length
           /\ \A items \in Batches :
                  /\ writer_extend(wr, file, items).err = E_none
                  /\ append_each(wr, file, items, 1).err = E_none
    /\ werr # E_unfilled

\* reached: append and extend have flushed a block in the session and the
\* writer holds a partial block, which the unforced flush would reject
C22_Witness ==
    /\ WriterOpen /\ sess.filled /\ Len(wr.index) > 0 /\ werr = E_none
    /\ 0 < Len(wr.cur_block) /\ Len(wr.cur_block) < wr.block_length
    /\ flush(wr, file, FALSE).err = E_unfilled


\* open(fname, "a") has just returned an Appender
AppenderOpened == wcall.op = "a" /\ werr = E_none /\ wr.kind = "appender"

\* C23: Appender recovery on open.  When the stored length is not a
\* multiple of block_length, the Appender's current block holds the records
\* of the last stored block and its index is the stored index without the
\* last entry; when the last block is full or the dataset is empty, the
\* current block is empty and the index is the stored index.  The
\* Appender's length is the stored length in both cases.
C23_AppenderRecovery ==
    AppenderOpened =>
        With(DatasetReader_init(file), LAMBDA r :
            /\ r.err = E_none
            /\ wr.length = r.rd.length
            /\ IF r.rd.length % r.rd.block_length # 0
               THEN /\ wr.cur_block
                          = load_block(r.rd, file, Len(r.rd.index) - 1).block
                    /\ wr.cur_block
                          = [k \in 1..(r.rd.length % r.rd.block_length) |->
                                serialize(data[Len(data) - (r.rd.length % r.rd.block_length) + k])]
                    /\ wr.index = SubSeq(r.rd.index, 1, Len(r.rd.index) - 1)
               ELSE /\ wr.cur_block = <<>>
                    /\ wr.index = r.rd.index)

\* reached: an Appender opened on a dataset with a full block and a partial
\* last block
C23_Witness ==
    /\ AppenderOpened /\ wr.cur_block # <<>> /\ Len(wr.index) > 0
    /\ Len(wr.cur_block) < wr.block_length

\* C24: Append session frame.  An Appender starts writing at offset
\* index_start + checksum length + index_size, the first byte after the old
\* index, and from open until close() writes the header no byte below that
\* offset is modified: the old header, every old block and the old index
\* stay as they were.  The header write changes the header alone.
C24_AppendFrame ==
    (wr.kind = "appender" /\ wr.fobj = "open") =>
        /\ AppenderOpened => wr.pos = IndexEnd(snap) /\ file = snap
        /\ pc.at # "headed" =>
               /\ Below(file, IndexEnd(snap)) = Below(snap, IndexEnd(snap))
               /\ wr.pos >= IndexEnd(snap)
        /\ Below(file, IndexEnd(snap))[2] = Below(snap, IndexEnd(snap))[2]
        /\ file.hsize = snap.hsize

\* reached: an Appender that found a partial last block has written a block
\* and the new index, before its header
C24_Witness ==
    /\ wr.kind = "appender" /\ pc.at = "indexed" /\ file.body # snap.body
    /\ HeaderFields(read_header(snap).header).length % wr.block_length # 0
    /\ Len(file.body) > Len(snap.body)


(***************************************************************************)
(* The Reader's one-block cache: get_idx calls on a dataset one Writer     *)
(* session made, while a byte of a block's payload may change in the file, *)
(* before the Reader opens it or while it is open.                         *)
(***************************************************************************)
\* the blocks of the file as Units lists them
BlockUnits(f) == {u \in Units(f) : u[1] = "block"}

\* whether a byte may change now: the dataset is closed and intact, and no
\* call is under way
MayChange ==
    /\ damage = NoDamage /\ sess.end = "closed" /\ sess.kind # "none"
    /\ wr.kind = "none" /\ out.op = "idle" /\ (rd.kind = "none" \/ ReaderOpen)

\* byte k of the payload of block u changes by d
CorruptBlock(u, k, d) ==
    /\ MayChange
    /\ u[1] = "block" /\ k < u[4]
    /\ file' = Write(file, u[3] + k, <<(Read(file, u[3] + k, 1)[1] + d) % 256>>)
    /\ damage' = [unit |-> u[1], n |-> u[2]]
    /\ UNCHANGED <<wr, rd, werr, out, data, pending, snap, sess, recl, nsess, nrec,
                   wcall, pc, mw4s>>

NextCache ==
    \/ WriteOnce
    \/ \E u \in (IF MayChange THEN BlockUnits(file) ELSE {}) : CorruptBlock(u, 0, 1)
    \/ OpenReader
    \/ \E i \in (0 - MaxLen - 1)..MaxLen : GetIdx(i)
    \/ CloseReader
    \/ DelReader
    \/ Return

SpecCache == Init /\ [][NextCache]_vars

\* block i of the dataset as data has it: the serialized records
BlockOf(i, block_length) ==
    [k \in 1..(IF (i + 1) * block_length <= Len(data) THEN block_length
               ELSE Len(data) - i * block_length) |->
        serialize(data[i * block_length + k])]

\* what a get_idx step does with the cache
CacheStep ==
    /\ (ReaderOpen /\ sess.end = "closed") =>
           IF rd.cur_block_idx = -1 THEN rd.cur_block = <<>>
           ELSE rd.cur_block = BlockOf(rd.cur_block_idx, rd.block_length)
    /\ (out.op = "idle" /\ out'.op = "get") =>
           LET i == IF out'.args[1] < 0 THEN rd.length + out'.args[1] ELSE out'.args[1]
               owner == i \div rd.block_length
           IN  IF i < 0 \/ i >= rd.length
               THEN out'.err = E_range /\ rd' = rd
               ELSE IF owner = rd.cur_block_idx
               THEN out'.err = E_none /\ out'.v = <<data[i + 1]>> /\ rd' = rd
               ELSE IF damage = [unit |-> "block", n |-> owner]
               THEN out'.err = E_block /\ out'.blk = owner /\ rd' = rd
               ELSE /\ out'.err = E_none /\ out'.v = <<data[i + 1]>>
                    /\ rd' = [rd EXCEPT !.cur_block_idx = owner,
                                        !.cur_block = load_block(rd, file, owner).block]

\* C25: Reader one-entry cache.  After any sequence of get_idx calls the
\* cached block, when there is one, is the content of block cur_block_idx;
\* get_idx loads a block from the file exactly when the block that owns the
\* index is not cur_block_idx, so that an index of the cached block is
\* served without a read and any other goes through the checksum; a
\* get_idx that fails, by IndexError or by a checksum mismatch, leaves the
\* cached block and cur_block_idx as they were.
C25_ReaderCache == [][CacheStep]_vars

\* reached: a record was served from the cached block after that block had
\* changed in the file, by a reader that had loaded another block before
C25_Witness ==
    /\ ReaderOpen /\ damage.unit = "block" /\ rd.cur_block_idx = damage.n
    /\ damage.n > 0
    /\ out.op = "get" /\ out.err = E_none /\ out.blk = damage.n


\* the range of indices a slice call selects is empty
EmptyRange(start, stop, step0, length) ==
    With(slice_indices(start, stop, step0, length), LAMBDA ind :
        (ind[3] > 0 /\ ind[1] >= ind[2]) \/ (ind[3] < 0 /\ ind[1] <= ind[2]))

\* C27: get_slice never fails on range.  For any start and stop, absent,
\* negative or beyond the length, and any non-zero step, get_slice raises no
\* IndexError; when the selected range is empty, also on an empty dataset,
\* the call yields the empty sequence and loads no block: it gives the same
\* outcome on a file none of whose blocks can be read.
C27_SliceNoIndexError ==
    (ReaderOpen /\ out.op = "slice") =>
        /\ out.err # E_range
        /\ EmptyRange(out.args[1], out.args[2], out.args[3], rd.length) =>
               /\ Yields(<<>>)
               /\ get_slice(rd, EmptyFile, out.args[1], out.args[2], out.args[3])
                      = [err |-> E_none, blk |-> -1, v |-> <<>>]
        /\ out.v # <<>> =>
               get_slice(rd, EmptyFile, out.args[1], out.args[2], out.args[3]).err # E_none

\* reached: a slice whose start lies below minus the length and whose stop
\* lies beyond the length has yielded every record of a full dataset
C27_Witness ==
    /\ ReaderOpen /\ out.op = "slice" /\ rd.length = MaxLen
    /\ out.args[1] = <<0 - MaxLen - 1>> /\ out.args[2] = <<MaxLen + 1>>
    /\ out.err = E_none /\ Len(out.v) = MaxLen

\* reached: a slice of an empty dataset with both bounds given has yielded
\* nothing
C27_WitnessEmpty ==
    /\ ReaderOpen /\ out.op = "slice" /\ rd.length = 0
    /\ out.args[1] = <<1>> /\ out.args[2] = <<0 - 1>> /\ out.args[3] = <<0 - 1>>
    /\ Yields(<<>>)


(***************************************************************************)
(* Every accessor of the Reader on a dataset one Writer session made, one  *)
(* byte of one block's payload having changed in the closed file.          *)
(***************************************************************************)
\* the bounds and steps of the slice calls made here
LoadBounds == {<<>>} \cup {<<x>> : x \in {0 - 1, 1, MaxLen - 1}}

LoadSteps == {<<>>, <<0 - 1>>, <<2>>}

NextLoad ==
    \/ WriteOnce
    \/ \E u \in (IF MayChange /\ rd.kind = "none" THEN BlockUnits(file) ELSE {}) :
           CorruptBlock(u, 0, 1)
    \/ OpenReader
    \/ \E i \in (0 - MaxLen - 1)..MaxLen : GetIdx(i)
    \/ \E ns \in IdxSeqs : GetIdxs(ns)
    \/ \E start \in LoadBounds, stop \in LoadBounds, step \in LoadSteps :
           GetSlice(start, stop, step)
    \/ Iterate
    \/ CloseReader
    \/ DelReader
    \/ Return

SpecLoad == Init /\ [][NextLoad]_vars

\* the records stored in block i
RecordsOf(i, block_length) ==
    {data[k] : k \in {k \in 1..Len(data) : (k - 1) \div block_length = i}}

\* the outcome of a call of any accessor
Accessed == out.op \in {"get", "idxs", "slice", "iter"}

\* C26: checksum on every load.  Every load of a block from the file, by
\* get_idx, get_idxs, get_slice or iteration, compares the checksum of the
\* bytes read with the stored one before any record of the block is
\* returned: with a byte of block n changed, no accessor returns a record
\* of block n; a call that needs block n fails with the IOError of
\* read_block naming n and returns nothing, and no call fails so for
\* another block.
C26_ChecksumEveryLoad ==
    (ReaderOpen /\ Accessed /\ damage.unit = "block") =>
        /\ \A k \in 1..Len(out.v) : out.v[k] \notin RecordsOf(damage.n, rd.block_length)
        /\ out.err = E_block => (out.blk = damage.n /\ out.v = <<>>)
        /\ out.err \in {E_none, E_block, E_range}
        /\ out.op = "iter" => out.err = E_block
        /\ (out.op = "get" /\ ValidIdx(data, out.args[1])
               /\ PyItem(data, out.args[1]) \in RecordsOf(damage.n, rd.block_length))
              => out.err = E_block

\* reached: a slice call failed on the changed block, which is not the first
C26_Witness ==
    /\ ReaderOpen /\ damage.unit = "block" /\ damage.n > 0
    /\ out.op = "slice" /\ out.err = E_block /\ out.blk = damage.n

\* reached: a get_idxs call returned records of an intact block
C26_WitnessIntact ==
    /\ ReaderOpen /\ damage.unit = "block"
    /\ out.op = "idxs" /\ out.err = E_none /\ Len(out.v) > 1


\* what a step of get_slice, get_idxs or iteration leaves alone, and what a
\* get_idx step does whatever calls came before it
FrameStep ==
    /\ (out.op = "idle" /\ out'.op \in {"slice", "idxs", "iter"}) => rd' = rd
    /\ (ReaderOpen /\ rd'.kind = "reader" /\ ~rd'.closed /\ rd' # rd) =>
           (out.op = "idle" /\ out'.op = "get")
    /\ CacheStep

\* C28: Accessor frame.  get_slice, get_idxs and iteration keep the block
\* they work on in locals and never change the Reader's cur_block or
\* cur_block_idx: only a get_idx step changes an open Reader, and with the
\* other accessors interleaved in any order get_idx returns the values and
\* performs the block loads it does with get_idx calls alone.
C28_AccessorFrame == [][FrameStep]_vars

\* reached: after a get_idx had cached a block other than the first, a
\* get_idxs call that fetched from two blocks has returned and the cache is
\* still that block
C28_Witness ==
    /\ ReaderOpen /\ rd.cur_block_idx > 0
    /\ out.op = "idxs" /\ out.err = E_none /\ Len(out.v) > 1
    /\ \E k \in 1..Len(out.args) :
           PyItem([j \in 1..rd.length |-> j - 1], out.args[k]) \div rd.block_length
               # rd.cur_block_idx


(***************************************************************************)
(* dset_sort with a key function of the caller's under which different     *)
(* records have equal keys.                                                *)
(***************************************************************************)
\* keyfn = lambda x: x // 100, on an integer record
hundreds_key(x) == x.n \div 100

\* the keys array with that keyfn
dset_keys_hundreds(din, f) ==
    With(reader_iter(din, f), LAMBDA it :
        IF it.err # E_none THEN [err |-> it.err, keys |-> <<>>]
        ELSE IF Len(it.v) > din.length \/ \E k \in 1..Len(it.v) : it.v[k].t # "int"
        THEN [err |-> E_getkey, keys |-> <<>>]
        ELSE [err |-> E_none,
              keys |-> [k \in 1..din.length |->
                            IF k <= Len(it.v) THEN hundreds_key(it.v[k]) ELSE 0]])

\* dset_sort(din, dout, lambda x: x // 100, cache_blocks) on the open
\* reader, and the read of its output
DsetSortBy(cache_blocks) ==
    /\ ReaderOpen
    /\ out.op = "idle"
    /\ \E ks \in {dset_keys_hundreds(rd, file)} :
           /\ ks.err = E_none
           /\ \E key_order \in argsort(ks.keys) :
                  out' = Result("sortby", <<cache_blocks>>,
                                sort_and_read(rd, file, key_order, cache_blocks))
    /\ UNCHANGED <<file, wr, rd, werr, data, pending, snap, sess, recl, nsess, nrec, damage, wcall, pc, mw4s>>

NextSortBy ==
    \/ WriteOnce
    \/ OpenReader
    \/ \E cb \in 1..MaxCacheBlocks : DsetSortBy(cb)
    \/ CloseReader
    \/ DelReader
    \/ Return

SpecSortBy == Init /\ [][NextSortBy]_vars

\* the position in the input of the record that output item k holds (the
\* output holds each record's serialized bytes; the records are distinct)
SourceOf(k) == CHOOSE p \in 1..Len(data) : out.v[k] = BinV(serialize(data[p]))

\* the output holds every record of the input once
SortedAll ==
    /\ out.err = E_none /\ Len(out.v) = Len(data)
    /\ \A p \in 1..Len(data) : \E k \in 1..Len(out.v) : out.v[k] = BinV(serialize(data[p]))

\* C29: Stable external sort.  The order derived from the keys is total
\* and stable: the output is in ascending key order, and of two records
\* with equal keys the one at the lower position in the input comes first.
C29_StableSort ==
    out.op = "sortby" =>
        /\ SortedAll
        /\ \A a, b \in 1..Len(out.v) :
               a < b => \/ hundreds_key(data[SourceOf(a)]) < hundreds_key(data[SourceOf(b)])
                        \/ /\ hundreds_key(data[SourceOf(a)]) = hundreds_key(data[SourceOf(b)])
                           /\ SourceOf(a) < SourceOf(b)

\* what holds instead: the output is in ascending key order, records with
\* equal keys in either order
C29_SortedByKey ==
    out.op = "sortby" =>
        /\ SortedAll
        /\ \A a, b \in 1..Len(out.v) :
               a < b => hundreds_key(data[SourceOf(a)]) <= hundreds_key(data[SourceOf(b)])

\* reached: two records with equal keys came out with the later one first
C29_Witness ==
    /\ out.op = "sortby" /\ SortedAll
    /\ \E a, b \in 1..Len(out.v) :
           /\ a < b /\ SourceOf(a) > SourceOf(b)
           /\ hundreds_key(data[SourceOf(a)]) = hundreds_key(data[SourceOf(b)])


\* the starts of the passes over n records: xrange(0, n, cache_size)
PassStarts(n, cache_size) == {s \in 0..(n - 1) : s % cache_size = 0}

\* the chunk buffer of the pass that starts at start, as the loop over idxs
\* fills it from a cache list of its own
PassCache(key_order, start, cache_size) ==
    With(pass_idxs(key_order, start, cache_size), LAMBDA idxs :
        fill_cache(rd, file, idxs, 1, -1, <<>>, [k \in 1..Len(idxs) |-> <<>>]))

\* the output after the passes that start below start
RECURSIVE Chunks(_, _, _)
Chunks(key_order, start, cache_size) ==
    IF start <= 0 THEN <<>>
    ELSE Chunks(key_order, start - cache_size, cache_size)
             \o PassCache(key_order, start - cache_size, cache_size).cache

\* C30: External sort memory bound.  In every pass the chunk buffer holds
\* at most cache_blocks * block_length records, whatever the length of the
\* dataset; the chunk is the records at the next cache_size positions of
\* the sorted order, in destination order, it is handed to the output
\* Writer as it is, and the next pass starts from a buffer of its own, so
\* that the output is the chunks one after the other.
C30_CacheBound ==
    (ReaderOpen /\ out.op = "sortby" /\ out.err = E_none) =>
        \A key_order \in argsort(dset_keys_hundreds(rd, file).keys) :
            LET cache_size == out.args[1] * rd.block_length
            IN  /\ \A start \in PassStarts(rd.length, cache_size) :
                       With(PassCache(key_order, start, cache_size), LAMBDA pc0 :
                           /\ pc0.err = E_none
                           /\ Len(pc0.cache) <= cache_size
                           /\ Len(pc0.cache) = IF start + cache_size <= rd.length
                                               THEN cache_size ELSE rd.length - start
                           /\ \A k \in 1..Len(pc0.cache) :
                                  pc0.cache[k] = serialize(data[key_order[start + k] + 1]))
                /\ \E order \in argsort(dset_keys_hundreds(rd, file).keys) :
                       With(Chunks(order, ((rd.length + cache_size - 1)
                                               \div cache_size) * cache_size, cache_size),
                            LAMBDA written :
                                /\ Len(written) = rd.length
                                /\ out.v = [k \in 1..rd.length |-> BinV(written[k])])

\* reached: a dataset longer than the cache was sorted in several passes,
\* the last of them shorter than the cache
C30_Witness ==
    /\ ReaderOpen /\ out.op = "sortby" /\ out.err = E_none
    /\ rd.length > out.args[1] * rd.block_length
    /\ rd.length % (out.args[1] * rd.block_length) # 0
    /\ out.args[1] * rd.block_length > 1


\* C31: Open-writer state invariant.  In every state of an open Writer or
\* Appender, after construction and after each append or extend, length is
\* len(index) * block_length + len(cur_block), cur_block holds between 0
\* and block_length items, every index entry describes a block of
\* block_length records, and cur_block_idx is len(index).
C31_OpenWriterState ==
    WriterOpen =>
        /\ wr.length = Len(wr.index) * wr.block_length + Len(wr.cur_block)
        /\ Len(wr.cur_block) <= wr.block_length
        /\ wr.cur_block_idx = Len(wr.index)
        /\ With(WriterBlockLens, LAMBDA lens :
               \A i \in 1..Len(lens) : lens[i] = wr.block_length)

\* reached: an Appender that reloaded a partial last block has been handed
\* records and holds a full block not yet flushed
C31_Witness ==
    /\ WriterOpen /\ wr.kind = "appender" /\ wcall.op = ""
    /\ sess.n > 0
    /\ (wr.length - sess.n) % wr.block_length # 0
    /\ Len(wr.cur_block) = wr.block_length /\ wr.block_length > 1


\* the file as its last session's close() left it
ClosedFile == sess.kind # "none" /\ sess.end = "closed"

\* the end of the region of index entry e: block_start + CHECKSUM_LEN +
\* compressed size
RegionEnd(e) == e[1] + CHECKSUM_LEN + e[2]

\* C32: File layout invariant.  In every closed file, after any number of
\* sessions, every block region starts at or after the HEADER_SPACE
\* reservation, the regions are pairwise disjoint and ascend with the block
\* number, the index region starts at or after the end of the last block
\* and lies within the file, and preheader, header checksum and header end
\* strictly below HEADER_SPACE.
C32_FileLayout ==
    ClosedFile =>
        With(read_preheader(file), LAMBDA ph :
        With(HeaderFields(read_header(file).header), LAMBDA hf :
        With(DatasetReader_init(file), LAMBDA r :
            /\ r.err = E_none
            /\ PRE_HEADER_LEN + CHECKSUM_LEN + ph.hdr_size < HEADER_SPACE
            /\ \A i \in 1..Len(r.rd.index) :
                   /\ r.rd.index[i][1] >= HEADER_SPACE
                   /\ i > 1 => r.rd.index[i][1] >= RegionEnd(r.rd.index[i - 1])
                   /\ hf.index_start >= RegionEnd(r.rd.index[i])
            /\ hf.index_start >= HEADER_SPACE
            /\ hf.index_start + CHECKSUM_LEN + hf.index_size
                   <= HEADER_SPACE + Len(file.body))))

\* reached: a file closed by a later session, an Appender, holds blocks on
\* both sides of an index that an earlier session left behind
C32_Witness ==
    /\ ClosedFile /\ JustClosed /\ wr.kind = "appender" /\ nsess > 1
    /\ Len(wr.index) > 1
    /\ \E i \in 2..Len(wr.index) : wr.index[i][1] > RegionEnd(wr.index[i - 1])


\* the last session is a Writer's and close() has not been through
UnclosedNew == sess.kind = "writer" /\ sess.end # "closed"

\* C33: Unclosed new file is rejected.  While a Writer on a new file has not
\* completed close(), whatever number of blocks it has flushed, the header
\* reservation holds only placeholder bytes, so that opening the file with a
\* Reader or an Appender fails with the IOError of read_preheader, not a
\* dataset file, and no read returns any record.
C33_UnclosedRejected ==
    UnclosedNew =>
        /\ file.hsize = HEADER_SPACE /\ file.head = <<>>
        /\ Read(file, 0, PRE_HEADER_LEN) = [k \in 1..PRE_HEADER_LEN |-> GARBAGE]
        /\ DatasetReader_init(file).err = E_magic
        /\ DatasetAppender_init(file).err = E_magic
        /\ out.op \in {"open", "iter"} => (out.err = E_magic /\ out.v = <<>>)
        /\ rd.kind = "none"
        /\ wcall.op = "a" => (werr = E_magic /\ wr.kind = "none")

\* reached: a Reader was opened on a file that an abandoned Writer had
\* flushed several blocks to, and failed
C33_Witness ==
    /\ UnclosedNew /\ sess.end = "abandoned"
    /\ Len(file.body) > 0 /\ sess.n > 2 * wcall.args[1]
    /\ out.op = "open" /\ out.err = E_magic

\* reached: an Appender was opened on such a file, and failed
C33_WitnessAppender ==
    /\ UnclosedNew /\ sess.end = "abandoned" /\ Len(file.body) > 0
    /\ wcall.op = "a" /\ werr = E_magic


(***************************************************************************)
(* Sessions in which a write statement of close() may fail: the statement  *)
(* raises before it writes a byte, and the exception leaves close().       *)
(***************************************************************************)
E_io == "IOError: write failed"

\* _flush, _write_index or _write_header raises inside the first close()
CloseRaise ==
    /\ \/ /\ pc.at = "idle"
          /\ wr.kind # "none" /\ ~runonce_skips(wr) /\ wr.fobj = "open"
       \/ pc.at \in {"flushed", "indexed"}
    /\ wr' = [wr EXCEPT !.closed = TRUE]
    /\ werr' = E_io
    /\ pc' = NotClosing
    /\ sess' = [sess EXCEPT !.end = "failed", !.clean = FALSE]
    /\ wcall' = [wcall EXCEPT !.op = ""]
    /\ UNCHANGED <<file, rd, out, data, pending, snap, recl, nsess, nrec, damage, mw4s>>

\* a close() after the first one
CloseAgain == wr.closed /\ CloseWriter

NextFail ==
    \/ \E bl \in 1..MaxBlockLength, c \in COMPRESSER_TABLE : OpenWriter(bl, c, S_msgpack)
    \/ OpenAppender
    \/ \E n \in 0..(MaxLen - nrec) : DoExtend(n)
    \/ CloseFlush
    \/ CloseIndex
    \/ CloseHeader
    \/ CloseRelease
    \/ CloseRaise
    \/ CloseAgain
    \/ DelWriter
    \/ OpenReader
    \/ Iterate
    \/ CloseReader
    \/ DelReader
    \/ Return

SpecFail == Init /\ [][NextFail]_vars

\* the first close() of the session has raised
CloseFailed == sess.end = "failed"

\* a step within a session whose first close() has raised
FailedStep ==
    /\ (pc.at # "idle" /\ sess'.end = "failed") =>
           (wr'.closed /\ werr' = E_io /\ pc'.at = "idle" /\ file' = file)
    /\ (CloseFailed /\ sess'.end = "failed") =>
           /\ file' = file
           /\ pc'.at = "idle"
           /\ wr.kind # "none" => wr.closed
           /\ wr'.kind # "none" => (wr' = wr /\ werr' = E_none)
    /\ CloseFailed => HeaderOnDisk(file) = HeaderOnDisk(snap)

\* C34: Failed close is final.  If the first close() of a Writer or
\* Appender raises part-way, in the flush of the last block, the write of
\* the index or the write of the header, the object is already marked
\* closed: a later close() returns without a write and without an error,
\* no step of close() runs again, and the header of the session never
\* reaches the file.
C34_FailedCloseFinal == [][FailedStep]_vars

\* reached: close() was called again on an Appender whose first close()
\* had raised after it had flushed the last block
C34_Witness ==
    /\ CloseFailed /\ wr.kind = "appender" /\ wr.closed /\ wr.fobj = "open"
    /\ werr = E_none /\ recl.w
    /\ file # snap /\ wr.cur_block = <<>> /\ sess.n > 0


\* the ValueErrors of DatasetWriter.__init__'s argument checks
ArgErrors == {E_vblock, E_vcompression, E_vserializer}

\* C35: Rejected open_writer has no effect on the file.  When the open of a
\* Writer fails its argument checks (block_length < 1, unknown compression,
\* unknown serializer) the file at the path is as it was before the call:
\* an existing dataset is neither truncated nor modified, and no file is
\* created.
C35_RejectedOpenKeepsFile ==
    [][(wcall'.op = "w" /\ werr' \in ArgErrors) => file' = file]_vars

\* what the code does: the path names a file of no bytes after the call
C35_RejectedOpenTruncates ==
    (wcall.op = "w" /\ werr \in ArgErrors) => (file = EmptyFile /\ wr.kind = "none")

\* reached: an open with an unknown serializer, its other arguments valid,
\* was rejected and left a file of no bytes
C35_Witness ==
    /\ wcall.op = "w" /\ werr = E_vserializer
    /\ wcall.args[1] >= 1 /\ wcall.args[2] \in COMPRESSER_TABLE
    /\ file = EmptyFile


\* the last session is an Appender's, closed, and a session before it was
\* abandoned
ClosedAfterAbandoned == ClosedFile /\ sess.kind = "appender" /\ ~sess.clean

\* the records handed to sessions that were abandoned
AbandonedRecords == {Rec(k) : k \in 1..nrec} \ {data[k] : k \in 1..Len(data)}

\* C36: Recovery after an abandoned append session.  If an append session
\* on a dataset holding A is abandoned without close(), after flushing any
\* number of blocks, and a following Appender session appends B and closes,
\* the file reads back exactly A + B; what the abandoned session left in
\* the file appears in no read result.
C36_RecoveryAfterAbandoned ==
    ClosedAfterAbandoned =>
        /\ out.op = "open" => out.err = E_none
        /\ out.op = "iter" => (Yields(data) /\ \A k \in 1..Len(out.v) :
                                                   out.v[k] \notin AbandonedRecords)
        /\ With(DatasetReader_init(file), LAMBDA r :
               /\ r.err = E_none
               /\ reader_iter(r.rd, file) = [err |-> E_none, blk |-> -1, v |-> data])
        /\ JustClosed => SubSeq(data, Len(data) - sess.n + 1, Len(data)) =
                             RecsFrom(nrec - sess.n, sess.n)

\* reached: the file read back after an Appender session that found blocks
\* of an abandoned session behind the index, appended and closed
C36_Witness ==
    /\ ClosedAfterAbandoned /\ sess.n > 0 /\ Len(data) > sess.n
    /\ Len(snap.body) > IndexEnd(snap) - HEADER_SPACE
    /\ nrec > Len(data)
    /\ out.op = "iter" /\ Yields(data)


(***************************************************************************)
(* pypb.dist: one Source, one Sink and Workers over ZeroMQ REQ/REP         *)
(* sockets.  A REQ socket sends a request and then waits for its reply; a  *)
(* REP socket receives the request of any requester and its next send goes *)
(* to that requester.  A recv and the send that follows it are one step.   *)
(***************************************************************************)
\* one turn of the loop of Source.send(task) on the request req: the
\* reply, the Source after it, and whether send returns
\* a faulty variant: the task is handed over and the loop goes on
send_turn_again(self, req, task) ==
    IF req = None THEN [rep |-> task, self |-> self, returns |-> FALSE]
    ELSE IF isinstance(req, WorkerJoinMessage)
    THEN [rep |-> None, self |-> [self EXCEPT !.nworkers = @ + 1], returns |-> FALSE]
    ELSE IF isinstance(req, WorkerExitedMessage)
    THEN [rep |-> None, self |-> [self EXCEPT !.nworkers = @ - 1], returns |-> FALSE]
    ELSE [rep |-> Silent, self |-> [self EXCEPT !.err = TRUE], returns |-> TRUE]

send_turn(self, req, task) ==
    IF req = None THEN [rep |-> task, self |-> self, returns |-> TRUE]
    ELSE IF isinstance(req, WorkerJoinMessage)
    THEN [rep |-> None, self |-> [self EXCEPT !.nworkers = @ + 1], returns |-> FALSE]
    ELSE IF isinstance(req, WorkerExitedMessage)
    THEN [rep |-> None, self |-> [self EXCEPT !.nworkers = @ - 1], returns |-> FALSE]
    ELSE [rep |-> Silent, self |-> [self EXCEPT !.err = TRUE], returns |-> TRUE]

\* the condition of the loop of Source.close
\* a faulty variant: close does not wait for the workers
close_waits_never(self) == FALSE

close_waits(self) == self.nworkers > 0

\* one turn of the loop of Source.close on the request req
\* a faulty variant: a task request is answered with a task
close_turn_task(self, req) ==
    IF req = None THEN [rep |-> Task(self.sent), self |-> self]
    ELSE IF isinstance(req, WorkerJoinMessage)
    THEN [rep |-> None, self |-> [self EXCEPT !.nworkers = @ + 1]]
    ELSE IF isinstance(req, WorkerExitedMessage)
    THEN [rep |-> None, self |-> [self EXCEPT !.nworkers = @ - 1]]
    ELSE [rep |-> Silent, self |-> [self EXCEPT !.err = TRUE]]

close_turn(self, req) ==
    IF req = None THEN [rep |-> NoMoreJobsMessage, self |-> self]
    ELSE IF isinstance(req, WorkerJoinMessage)
    THEN [rep |-> None, self |-> [self EXCEPT !.nworkers = @ + 1]]
    ELSE IF isinstance(req, WorkerExitedMessage)
    THEN [rep |-> None, self |-> [self EXCEPT !.nworkers = @ - 1]]
    ELSE [rep |-> Silent, self |-> [self EXCEPT !.err = TRUE]]

\* the condition of the loop of Sink.next
\* a faulty variant: the iteration ends with the source
sink_continues_source(self) == ~self.source_closed

sink_continues(self) == ~self.source_closed \/ self.nworkers > 0

\* one turn of the loop of Sink.next on the object received
\* a faulty variant: every object received is returned
sink_turn_all(self, result) == [self EXCEPT !.got = Append(@, result)]

sink_turn(self, result) ==
    IF isinstance(result, WorkerJoinMessage) THEN [self EXCEPT !.nworkers = @ + 1]
    ELSE IF isinstance(result, WorkerExitedMessage) THEN [self EXCEPT !.nworkers = @ - 1]
    ELSE IF isinstance(result, SourceExitedMessage) THEN [self EXCEPT !.source_closed = TRUE]
    ELSE [self EXCEPT !.got = Append(@, result)]

\* Source.send(Task(sent + 1)): a request of worker w is received and
\* answered
SourceSend(w) ==
    /\ src.at = "run" /\ ~src.err /\ src.sent < MaxTasks
    /\ sreq[w] # Silent
    /\ \E r \in {send_turn(src, sreq[w], Task(src.sent + 1))} :
           /\ src' = IF r.returns /\ ~r.self.err THEN [r.self EXCEPT !.sent = @ + 1]
                     ELSE r.self
           /\ srep' = [srep EXCEPT ![w] = r.rep]
    /\ sreq' = [sreq EXCEPT ![w] = Silent]
    /\ UNCHANGED <<dset, snk, wk, treq, trep>>

\* Source.close is called: runonce marks the Source closed
SourceClose ==
    /\ src.at = "run" /\ ~src.err
    /\ src' = [src EXCEPT !.at = "closing", !.closed = TRUE]
    /\ UNCHANGED <<dset, snk, wk, sreq, srep, treq, trep>>

\* Source.close: a request of worker w is received and answered
SourceCloseTurn(w) ==
    /\ src.at = "closing" /\ ~src.err /\ close_waits(src)
    /\ sreq[w] # Silent
    /\ \E r \in {close_turn(src, sreq[w])} :
           /\ src' = r.self
           /\ srep' = [srep EXCEPT ![w] = r.rep]
    /\ sreq' = [sreq EXCEPT ![w] = Silent]
    /\ UNCHANGED <<dset, snk, wk, treq, trep>>

\* Source.close: self.tsock.send_pyobj(SourceExitedMessage())
SourceExit ==
    /\ src.at = "closing" /\ ~src.err /\ ~close_waits(src)
    /\ src' = [src EXCEPT !.at = "exiting"]
    /\ treq' = [treq EXCEPT ![SOURCE] = SourceExitedMessage]
    /\ UNCHANGED <<dset, snk, wk, sreq, srep, trep>>

\* Source.close: the reply of the Sink is received and the sockets closed
SourceExited ==
    /\ src.at = "exiting" /\ trep[SOURCE] # Silent
    /\ src' = IF trep[SOURCE] = None THEN [src EXCEPT !.at = "closed"]
              ELSE [src EXCEPT !.err = TRUE]
    /\ trep' = [trep EXCEPT ![SOURCE] = Silent]
    /\ UNCHANGED <<dset, snk, wk, sreq, srep, treq>>

\* Sink.next: the object of requester p is received and answered with None
SinkNext(p) ==
    /\ snk.at = "iter" /\ sink_continues(snk)
    /\ treq[p] # Silent
    /\ snk' = sink_turn(snk, treq[p])
    /\ treq' = [treq EXCEPT ![p] = Silent]
    /\ trep' = [trep EXCEPT ![p] = None]
    /\ UNCHANGED <<dset, src, wk, sreq, srep>>

\* Sink.next: raise StopIteration()
SinkStop ==
    /\ snk.at = "iter" /\ ~sink_continues(snk)
    /\ snk' = [snk EXCEPT !.at = "stopped"]
    /\ UNCHANGED <<dset, src, wk, sreq, srep, treq, trep>>

\* Worker.__init__: the join message to the source
WorkerJoin(w) ==
    /\ wk[w].at = "new"
    /\ wk' = [wk EXCEPT ![w].at = "join_s"]
    /\ sreq' = [sreq EXCEPT ![w] = WorkerJoinMessage]
    /\ UNCHANGED <<dset, src, snk, srep, treq, trep>>

\* Worker.__init__: the reply of the source, then the join message to the
\* sink
WorkerJoinSink(w) ==
    /\ wk[w].at = "join_s" /\ srep[w] # Silent
    /\ srep' = [srep EXCEPT ![w] = Silent]
    /\ IF srep[w] = None
       THEN /\ wk' = [wk EXCEPT ![w].at = "join_t"]
            /\ treq' = [treq EXCEPT ![w] = WorkerJoinMessage]
       ELSE /\ wk' = [wk EXCEPT ![w].at = "failed", ![w].err = TRUE]
            /\ UNCHANGED treq
    /\ UNCHANGED <<dset, src, snk, sreq, trep>>

\* the reply of the sink to a join message or to a result: __init__ or send
\* returns
WorkerReady(w) ==
    /\ wk[w].at \in {"join_t", "send"} /\ trep[w] # Silent
    /\ trep' = [trep EXCEPT ![w] = Silent]
    /\ wk' = IF trep[w] = None THEN [wk EXCEPT ![w].at = "ready"]
             ELSE [wk EXCEPT ![w].at = "failed", ![w].err = TRUE]
    /\ UNCHANGED <<dset, src, snk, sreq, srep, treq>>

\* Worker.next: self.ssock.send_pyobj(None)
WorkerNext(w) ==
    /\ wk[w].at = "ready"
    /\ wk' = [wk EXCEPT ![w].at = "next"]
    /\ sreq' = [sreq EXCEPT ![w] = None]
    /\ UNCHANGED <<dset, src, snk, srep, treq, trep>>

\* Worker.next: the task is received; next returns it or raises
\* StopIteration
WorkerTask(w) ==
    /\ wk[w].at = "next" /\ srep[w] # Silent
    /\ srep' = [srep EXCEPT ![w] = Silent]
    /\ wk' = IF isinstance(srep[w], NoMoreJobsMessage)
             THEN [wk EXCEPT ![w].at = "stopped"]
             ELSE [wk EXCEPT ![w].at = "work", ![w].got = Append(@, srep[w])]
    /\ UNCHANGED <<dset, src, snk, sreq, treq, trep>>

\* Worker.send(result), the result of the task last received
WorkerSend(w) ==
    /\ wk[w].at = "work"
    /\ \E result \in {ResultOf(wk[w].got[Len(wk[w].got)])} :
           /\ wk' = [wk EXCEPT ![w].at = "send", ![w].sent = Append(@, result)]
           /\ treq' = [treq EXCEPT ![w] = result]
    /\ UNCHANGED <<dset, src, snk, sreq, srep, trep>>

\* Worker.close: the exit message to the source, after the iteration has
\* ended or before
WorkerClose(w) ==
    /\ wk[w].at \in {"ready", "stopped"}
    /\ wk' = [wk EXCEPT ![w].at = "exit_s"]
    /\ sreq' = [sreq EXCEPT ![w] = WorkerExitedMessage]
    /\ UNCHANGED <<dset, src, snk, srep, treq, trep>>

\* Worker.close: the reply of the source, then the exit message to the sink
WorkerExitSink(w) ==
    /\ wk[w].at = "exit_s" /\ srep[w] # Silent
    /\ srep' = [srep EXCEPT ![w] = Silent]
    /\ IF srep[w] = None
       THEN /\ wk' = [wk EXCEPT ![w].at = "exit_t"]
            /\ treq' = [treq EXCEPT ![w] = WorkerExitedMessage]
       ELSE /\ wk' = [wk EXCEPT ![w].at = "failed", ![w].err = TRUE]
            /\ UNCHANGED treq
    /\ UNCHANGED <<dset, src, snk, sreq, trep>>

\* Worker.close: the reply of the sink
WorkerDone(w) ==
    /\ wk[w].at = "exit_t" /\ trep[w] # Silent
    /\ trep' = [trep EXCEPT ![w] = Silent]
    /\ wk' = IF trep[w] = None THEN [wk EXCEPT ![w].at = "done"]
             ELSE [wk EXCEPT ![w].at = "failed", ![w].err = TRUE]
    /\ UNCHANGED <<dset, src, snk, sreq, srep, treq>>

SourceStep ==
    \/ \E w \in Workers : SourceSend(w)
    \/ SourceClose
    \/ \E w \in Workers : SourceCloseTurn(w)
    \/ SourceExit
    \/ SourceExited

SinkStep ==
    \/ \E p \in Peers : SinkNext(p)
    \/ SinkStop

WorkerStep(w) ==
    \/ WorkerJoin(w)
    \/ WorkerJoinSink(w)
    \/ WorkerReady(w)
    \/ WorkerNext(w)
    \/ WorkerTask(w)
    \/ WorkerSend(w)
    \/ WorkerClose(w)
    \/ WorkerExitSink(w)
    \/ WorkerDone(w)

NextDist ==
    \/ SourceStep
    \/ SinkStep
    \/ \E w \in Workers : WorkerStep(w)

SpecDist == Init /\ [][NextDist]_vars


\* the tasks passed to the calls of Source.send that have returned
TasksSent == {Task(k) : k \in 1..src.sent}

\* the number of places a task is in: on its way to a worker, or returned
\* by a Worker.next call
Holders(task) ==
    Cardinality({w \in Workers : srep[w] = task})
    + Cardinality({<<w, i>> \in Workers \X (1..MaxTasks) :
                       i <= Len(wk[w].got) /\ wk[w].got[i] = task})

\* a step of Source.send that answers a join or an exit request
SendAdjusts ==
    \A w \in Workers :
        (SourceSend(w) /\ sreq[w] # None)
            => /\ srep'[w] = None
               /\ src'.sent = src.sent
               /\ src'.at = "run" /\ ~src'.err
               /\ src'.nworkers = src.nworkers
                      + (IF isinstance(sreq[w], WorkerJoinMessage) THEN 1 ELSE -1)
               /\ \A v \in Workers \ {w} : srep'[v] = srep[v]

\* C37: every task passed to a Source.send call that has returned is in
\* exactly one place, handed to one worker and returned by one Worker.next
\* call at most, and a task whose send call has not returned is nowhere, so
\* send returns with the hand-over; a join or an exit request arriving in a
\* send call is answered with None and changes only the worker count.
C37_ExactlyOnce ==
    /\ [](\A k \in 1..MaxTasks :
              Holders(Task(k)) = IF k <= src.sent THEN 1 ELSE 0)
    /\ [][SendAdjusts]_vars

\* the send calls answered the join request of every worker and have all
\* returned, and a Worker.next call of every worker has returned a task
C37_Witness ==
    /\ src.at = "run" /\ src.nworkers = MaxWorkers
    /\ src.sent = MaxTasks /\ MaxTasks > 1
    /\ \A w \in Workers : Len(wk[w].got) > 0


\* the workers the Source counts: their join request was answered and their
\* exit request was not
Counted(w) ==
    \/ wk[w].at \in {"join_t", "ready", "next", "work", "send", "stopped"}
    \/ wk[w].at = "join_s" /\ sreq[w] = Silent
    \/ wk[w].at = "exit_s" /\ sreq[w] # Silent

\* Source.close has been called
CloseBegun == src.at # "run"

\* once close has begun no request is answered with a task
NoTaskAfterClose ==
    CloseBegun => \A w \in Workers :
                      srep'[w] # srep[w] =>
                          srep'[w] \in {Silent, None, NoMoreJobsMessage}

\* the iteration of worker w is running: its constructor has returned and
\* neither StopIteration was raised nor close called
Iterating(w) == wk[w].at \in {"ready", "next", "work", "send"}

\* a Source in close and a Sink in next receive a request that waits, and
\* some worker that is not waiting for a reply goes on with its program
DistFairness ==
    /\ WF_vars(\E w \in Workers : SourceCloseTurn(w))
    /\ WF_vars(\E p \in Peers : SinkNext(p))
    /\ WF_vars(\E w \in Workers : WorkerStep(w))

SpecDistFair == SpecDist /\ DistFairness

C38_WitnessExit ==
    /\ src.at = "closed" /\ snk.source_closed
    /\ \A w \in Workers : wk[w].at = "done" /\ Len(wk[w].got) > 0


\* the workers the Sink counts: their join message was processed and their
\* exit message was not
SinkCounted(w) ==
    \/ wk[w].at \in {"ready", "next", "work", "send", "stopped", "exit_s"}
    \/ wk[w].at = "join_t" /\ treq[w] = Silent
    \/ wk[w].at = "exit_t" /\ treq[w] # Silent

\* the elements of a sequence
Elems(s) == {s[i] : i \in 1..Len(s)}

\* the objects that are protocol messages
Messages ==
    {WorkerJoinMessage, WorkerExitedMessage, NoMoreJobsMessage, SourceExitedMessage}

\* C39: the iteration of the Sink has ended only if the source-exited
\* message was processed and no worker that joined the Sink is left without
\* its exit message processed; then every result a worker passed to send
\* has been returned by Sink.next and no worker will pass another; and no
\* join, exit or source-exited message is ever returned as a result.
C39_SinkComplete ==
    /\ snk.nworkers = Cardinality({w \in Workers : SinkCounted(w)})
    /\ Elems(snk.got) \cap Messages = {}
    /\ snk.at = "stopped" =>
           /\ snk.source_closed
           /\ \A w \in Workers :
                  /\ ~SinkCounted(w)
                  /\ Elems(wk[w].sent) \subseteq Elems(snk.got)
                  /\ wk[w].at \in {"new", "join_s", "exit_t", "done"}
                  /\ Len(wk[w].sent) = Len(wk[w].got)

\* the iteration has ended after every worker passed a result to send and
\* Sink.next returned the result of every task
C39_Witness ==
    /\ snk.at = "stopped"
    /\ Len(snk.got) = MaxTasks
    /\ \A w \in Workers : Len(wk[w].sent) > 0
    /\ \E i \in 1..Len(snk.got) : snk.got[i] = ResultOf(Task(MaxTasks))
=============================================================================
